---- MODULE Spec2Model ----
(***************************************************************************)
(* Pool Manager: pools of reusable objects keyed by class, with a          *)
(* per-factory spawn queue that is drained at a bounded rate on each tick. *)
(* The model follows UPoolManagerSubsystem, UPoolFactory_UObject and the   *)
(* value types of PoolManagerTypes.                                        *)
(***************************************************************************)
EXTENDS Integers, Sequences, FiniteSets, TLC

(***************************************************************************)
(* Bounds of the model.                                                    *)
(***************************************************************************)
\* handles (GUIDs) generated in one behaviour
MaxHandles == 3
\* objects created by outer code and offered to RegisterObjectInPool
MaxExternal == 1
\* requests of one TakeFromPoolArray call
MaxBatch == 2

\* values of UPoolManagerSettings::SpawnObjectsPerFrame the model is run with
Rates == {1, 2}
\* values of the setting below the least valid one (it is a plain int32 of the config)
InvalidRates == {-1, 0}

(***************************************************************************)
(* Classes and their hierarchy (UClass::GetSuperClass).                    *)
(***************************************************************************)
NoClass == "nullptr"
Classes == {"UObject", "AActor"}
\* the classes a factory may be registered for; objects are requested for Classes
AllClasses == {"UObject", "AActor", "APawn", "UUserWidget"}
SuperClass(Class) ==
  CASE Class = "AActor" -> "UObject"
    [] Class = "APawn" -> "AActor"
    [] Class = "UUserWidget" -> "UObject"
    [] OTHER -> NoClass

(***************************************************************************)
(* EPoolObjectState                                                        *)
(***************************************************************************)
None == "None"
Inactive == "Inactive"
Active == "Active"

(***************************************************************************)
(* ESpawnRequestPriority, ordered as the comparison of                     *)
(* FindInsertionIndex needs it: Normal < Medium < High < Critical.         *)
(***************************************************************************)
Normal == 0
Medium == 1
High == 2
Critical == 3
Priorities == {Normal, Medium, High, Critical}

(***************************************************************************)
(* FPoolObjectHandle: a class and a hash; equality is on the hash alone.   *)
(* Hashes are drawn from a counter (FGuid::NewGuid never repeats).         *)
(***************************************************************************)
EmptyHandle == [ObjectClass |-> NoClass, Hash |-> 0]
HandleIsValid(Handle) == Handle.ObjectClass # NoClass /\ Handle.Hash # 0
HandleEq(Lhs, Rhs) == Lhs.Hash = Rhs.Hash

(***************************************************************************)
(* FPoolObjectData: objects are numbered 1, 2, ... in creation order;      *)
(* 0 is the null object.                                                   *)
(***************************************************************************)
NullObject == 0
EmptyObject == [bIsActive |-> FALSE, PoolObject |-> NullObject, Handle |-> EmptyHandle]
DataIsValid(Data) == Data.PoolObject # NullObject /\ HandleIsValid(Data.Handle)
\* a faulty IsFree, which takes an active entry for a free one
IsFree_AnyValid(Data) == DataIsValid(Data)
IsFree(Data) == ~Data.bIsActive /\ DataIsValid(Data)
IsActive(Data) == Data.bIsActive /\ DataIsValid(Data)
GetState(Data) == IF Data.bIsActive THEN Active ELSE Inactive

VARIABLES
  SpawnObjectsPerFrame,  \* UPoolManagerSettings::SpawnObjectsPerFrame
  AllFactoriesInternal,  \* classes that have a registered factory
  PoolsInternal,         \* sequence of FPoolContainer
  SpawnQueueInternal,    \* factory -> sequence of FSpawnRequest
  Timers,                \* factory -> next-tick timers set and not yet fired
  Due,                   \* factory -> timers that fire in the running tick
  Handles,               \* class of every generated handle, by hash
  Objects,               \* class of every created object, by number
  Destroyed,             \* objects that were destroyed (no longer IsValid)
  Batches,               \* closures of CreateNewObjectsArrayInPool
  call,                  \* the last operation: name, arguments, result
  trace,                 \* hooks and callbacks invoked by the last operation
  hist                   \* history kept for the properties

vars == <<SpawnObjectsPerFrame, AllFactoriesInternal, PoolsInternal,
          SpawnQueueInternal, Timers, Due, Handles, Objects, Destroyed, Batches,
          call, trace, hist>>


(***************************************************************************)
(* The operations are written as operators on a record S holding the       *)
(* mutable state, so that an operation can call another one; S.ret is the  *)
(* value the last called function returned.                                *)
(***************************************************************************)
Ev(e, h, o, x) == [e |-> e, h |-> h, o |-> o, x |-> x]
Emit(S, ev) == [S EXCEPT !.trace = Append(@, ev)]
Ret(S, v) == [S EXCEPT !.ret = v]
StateCode(NewState) == IF NewState = Active THEN 1 ELSE 0
MinOf(Set) == CHOOSE x \in Set : \A y \in Set : x <= y
\* sequencing: Rest is what a function does with the value (the state) that
\* the call before it has left
Bind(Value, Rest(_)) == Rest(Value)

\* a faulty FindPool, which also accepts the container of an ancestor class
FindPool_OrAncestor(S, ObjectClass) ==
  LET Found == {i \in 1..Len(S.PoolsInternal) :
                  S.PoolsInternal[i].ObjectClass
                    \in {ObjectClass, SuperClass(ObjectClass), SuperClass(SuperClass(ObjectClass))}}
  IN IF ObjectClass = NoClass \/ Found = {} THEN 0 ELSE MinOf(Found)
\* UPoolManagerSubsystem::FindPool: index of the container of the class, 0 if none
FindPool(S, ObjectClass) ==
  LET Found == {i \in 1..Len(S.PoolsInternal) :
                  S.PoolsInternal[i].ObjectClass = ObjectClass}
  IN IF ObjectClass = NoClass \/ Found = {} THEN 0 ELSE MinOf(Found)

\* FPoolContainer::FindInPool(const UObject&): index of the entry, 0 if none
FindInPoolByObject(Pool, Object) ==
  LET Found == {i \in 1..Len(Pool.PoolObjects) :
                  Pool.PoolObjects[i].PoolObject = Object}
  IN IF Found = {} THEN 0 ELSE MinOf(Found)

\* FPoolContainer::FindInPool(const FPoolObjectHandle&): index of the entry, 0 if none
FindInPoolByHandle(Pool, Handle) ==
  LET Found == {i \in 1..Len(Pool.PoolObjects) :
                  HandleEq(Pool.PoolObjects[i].Handle, Handle)}
  IN IF ~HandleIsValid(Handle) \/ Found = {} THEN 0 ELSE MinOf(Found)

\* a variant that falls back to some registered factory when the chain is
\* exhausted (not the program's behaviour)
RECURSIVE FindPoolFactoryChecked_AnyFactory(_, _)
FindPoolFactoryChecked_AnyFactory(Factories, CurrentClass) ==
  IF CurrentClass = NoClass
  THEN IF Factories = {} THEN NoClass ELSE CHOOSE f \in Factories : TRUE
  ELSE IF CurrentClass \in Factories THEN CurrentClass
  ELSE FindPoolFactoryChecked_AnyFactory(Factories, SuperClass(CurrentClass))
\* a faulty FindPoolFactoryChecked, which prefers the factory of the most
\* general class of the ancestor chain
RECURSIVE FindPoolFactoryChecked_MostGeneral(_, _)
FindPoolFactoryChecked_MostGeneral(Factories, CurrentClass) ==
  IF CurrentClass = NoClass THEN NoClass
  ELSE LET Above == FindPoolFactoryChecked_MostGeneral(Factories, SuperClass(CurrentClass))
       IN IF Above # NoClass THEN Above
          ELSE IF CurrentClass \in Factories THEN CurrentClass
          ELSE NoClass
\* UPoolManagerSubsystem::FindPoolFactoryChecked: the factory of the closest
\* class of the ancestor chain that has one (NoClass: the fatal check fails)
RECURSIVE FindPoolFactoryChecked(_, _)
FindPoolFactoryChecked(Factories, CurrentClass) ==
  IF CurrentClass = NoClass THEN NoClass
  ELSE IF CurrentClass \in Factories THEN CurrentClass
  ELSE FindPoolFactoryChecked(Factories, SuperClass(CurrentClass))

\* a variant that resolves the factory of a container it finds once more
\* (not the program's behaviour)
FindPoolOrAdd_Refresh(S, ObjectClass) ==
  LET p == FindPool(S, ObjectClass)
      Found == FindPoolFactoryChecked(S.AllFactoriesInternal, ObjectClass)
  IN IF p # 0
     THEN IF Found = NoClass THEN S ELSE [S EXCEPT !.PoolsInternal[p].Factory = Found]
     ELSE [S EXCEPT !.PoolsInternal = Append(@,
             [ObjectClass |-> ObjectClass, Factory |-> Found, PoolObjects |-> <<>>])]
\* UPoolManagerSubsystem::FindPoolOrAdd
FindPoolOrAdd(S, ObjectClass) ==
  IF FindPool(S, ObjectClass) # 0 THEN S
  ELSE [S EXCEPT !.PoolsInternal = Append(@,
          [ObjectClass |-> ObjectClass,
           Factory |-> FindPoolFactoryChecked(S.AllFactoriesInternal, ObjectClass),
           PoolObjects |-> <<>>])]

\* UPoolManagerSubsystem::GetPoolObjectState_Implementation
GetPoolObjectState(S, Object) ==
  LET p == IF Object = NullObject THEN 0 ELSE FindPool(S, S.Objects[Object])
      i == IF p = 0 THEN 0 ELSE FindInPoolByObject(S.PoolsInternal[p], Object)
  IN IF i = 0 \/ ~DataIsValid(S.PoolsInternal[p].PoolObjects[i]) THEN None
     ELSE GetState(S.PoolsInternal[p].PoolObjects[i])

\* a faulty SetObjectStateInPool, which changes the first entry of the container
SetObjectStateInPool_FirstEntry(S, NewState, InObject, p) ==
  LET i == FindInPoolByObject(S.PoolsInternal[p], InObject)
  IN IF i = 0 \/ ~DataIsValid(S.PoolsInternal[p].PoolObjects[i]) THEN S
     ELSE Emit([S EXCEPT !.PoolsInternal[p].PoolObjects[1].bIsActive = (NewState = Active)],
               Ev("OnChangedStateInPool", 0, InObject, StateCode(NewState)))
\* UPoolManagerSubsystem::SetObjectStateInPool on the container with index p
SetObjectStateInPool(S, NewState, InObject, p) ==
  LET i == FindInPoolByObject(S.PoolsInternal[p], InObject)
  IN IF i = 0 \/ ~DataIsValid(S.PoolsInternal[p].PoolObjects[i]) THEN S
     ELSE Emit([S EXCEPT !.PoolsInternal[p].PoolObjects[i].bIsActive = (NewState = Active)],
               Ev("OnChangedStateInPool", 0, InObject, StateCode(NewState)))

\* a faulty TakeFromPoolOrNull, which takes the free entry that was registered last
TakeFromPoolOrNull_LastFit(S, ObjectClass) ==
  LET p == FindPool(S, ObjectClass)
      Free == IF p = 0 THEN {}
              ELSE {i \in 1..Len(S.PoolsInternal[p].PoolObjects) :
                      IsFree(S.PoolsInternal[p].PoolObjects[i])}
  IN IF p = 0 \/ Free = {} THEN Ret(S, EmptyObject)
     ELSE LET i == CHOOSE x \in Free : \A y \in Free : y <= x
              InObject == S.PoolsInternal[p].PoolObjects[i].PoolObject
              S1 == Emit(S, Ev("OnTakeFromPool", S.PoolsInternal[p].PoolObjects[i].Handle.Hash, InObject, 0))
          IN Bind(SetObjectStateInPool(S1, Active, InObject, p), LAMBDA S2 :
               Ret([S2 EXCEPT !.hist.Takers[InObject] = @ + 1],
                   S2.PoolsInternal[p].PoolObjects[i]))
\* UPoolManagerSubsystem::TakeFromPoolOrNull; S.ret is the entry or EmptyObject (null)
TakeFromPoolOrNull(S, ObjectClass) ==
  LET p == FindPool(S, ObjectClass)
      Free == IF p = 0 THEN {}
              ELSE {i \in 1..Len(S.PoolsInternal[p].PoolObjects) :
                      IsFree(S.PoolsInternal[p].PoolObjects[i])}
  IN IF p = 0 \/ Free = {} THEN Ret(S, EmptyObject)
     ELSE LET i == MinOf(Free)
              InObject == S.PoolsInternal[p].PoolObjects[i].PoolObject
              S1 == Emit(S, Ev("OnTakeFromPool", S.PoolsInternal[p].PoolObjects[i].Handle.Hash, InObject, 0))
          IN Bind(SetObjectStateInPool(S1, Active, InObject, p), LAMBDA S2 :
               Ret([S2 EXCEPT !.hist.Takers[InObject] = @ + 1],
                   S2.PoolsInternal[p].PoolObjects[i]))

\* a faulty ReturnToPool, which leaves the entry active
ReturnToPoolObject_KeepActive(S, Object) ==
  IF Object = NullObject THEN Ret(S, FALSE)
  ELSE LET S1 == FindPoolOrAdd(S, S.Objects[Object])
       IN Ret(Emit(S1, Ev("OnReturnToPool", 0, Object, 0)), TRUE)
\* a variant that moves the entry of the returned object to the end of its
\* container (not the program's behaviour)
ReturnToPoolObject_MoveToEnd(S, Object) ==
  IF Object = NullObject THEN Ret(S, FALSE)
  ELSE Bind(FindPoolOrAdd(S, S.Objects[Object]), LAMBDA S1 :
         LET p == FindPool(S1, S.Objects[Object])
             S2 == Emit(S1, Ev("OnReturnToPool", 0, Object, 0))
         IN Bind(SetObjectStateInPool(S2, Inactive, Object, p), LAMBDA S3 :
              LET i == FindInPoolByObject(S3.PoolsInternal[p], Object)
                  Entries == S3.PoolsInternal[p].PoolObjects
              IN Ret(IF i # 0
                     THEN [S3 EXCEPT !.hist.Takers[Object] = 0,
                                     !.PoolsInternal[p].PoolObjects =
                                        SubSeq(Entries, 1, i - 1)
                                          \o SubSeq(Entries, i + 1, Len(Entries))
                                          \o <<Entries[i]>>]
                     ELSE S3,
                     TRUE)))
\* UPoolManagerSubsystem::ReturnToPool_Implementation(UObject*)
ReturnToPoolObject(S, Object) ==
  IF Object = NullObject THEN Ret(S, FALSE)
  ELSE Bind(FindPoolOrAdd(S, S.Objects[Object]), LAMBDA S1 :
         LET p == FindPool(S1, S.Objects[Object])
             S2 == Emit(S1, Ev("OnReturnToPool", 0, Object, 0))
         IN Bind(SetObjectStateInPool(S2, Inactive, Object, p), LAMBDA S3 :
              Ret(IF FindInPoolByObject(S3.PoolsInternal[p], Object) # 0
                  THEN [S3 EXCEPT !.hist.Takers[Object] = 0] ELSE S3,
                  TRUE)))

\* a variant that takes the request at the front of the queue instead of
\* the one it found (not the program's behaviour)
DequeueSpawnRequestByHandle_Front(S, f, Handle) ==
  LET Queue == S.SpawnQueueInternal[f]
      Found == {i \in 1..Len(Queue) : HandleEq(Queue[i].Handle, Handle)}
  IN IF Found = {} THEN Ret(S, FALSE)
     ELSE Ret([S EXCEPT !.SpawnQueueInternal[f] = SubSeq(Queue, 2, Len(Queue)),
                        !.out = Queue[MinOf(Found)],
                        !.hist.Cancelled = @ \cup {Queue[MinOf(Found)].Handle.Hash}],
              TRUE)
\* a faulty DequeueSpawnRequestByHandle, which leaves the request in the queue
DequeueSpawnRequestByHandle_KeepQueued(S, f, Handle) ==
  LET Queue == S.SpawnQueueInternal[f]
      Found == {i \in 1..Len(Queue) : HandleEq(Queue[i].Handle, Handle)}
  IN IF Found = {} THEN Ret(S, FALSE)
     ELSE Ret([S EXCEPT !.out = Queue[MinOf(Found)]], TRUE)
\* a faulty DequeueSpawnRequestByHandle, which fills the gap with the last
\* request of the queue (RemoveAtSwap)
DequeueSpawnRequestByHandle_Swap(S, f, Handle) ==
  LET Queue == S.SpawnQueueInternal[f]
      Found == {i \in 1..Len(Queue) : HandleEq(Queue[i].Handle, Handle)}
  IN IF Found = {} THEN Ret(S, FALSE)
     ELSE LET Idx == MinOf(Found)
              S1 == [S EXCEPT !.SpawnQueueInternal[f] =
                        SubSeq([Queue EXCEPT ![Idx] = Queue[Len(Queue)]], 1, Len(Queue) - 1),
                      !.out = Queue[Idx],
                      !.hist.Cancelled = @ \cup {Queue[Idx].Handle.Hash}]
          IN Ret(S1, HandleIsValid(Queue[Idx].Handle))
\* UPoolFactory_UObject::DequeueSpawnRequestByHandle of factory f;
\* S.ret is the result, S.out the request taken out of the queue
DequeueSpawnRequestByHandle(S, f, Handle) ==
  LET Queue == S.SpawnQueueInternal[f]
      Found == {i \in 1..Len(Queue) : HandleEq(Queue[i].Handle, Handle)}
  IN IF Found = {} THEN Ret(S, FALSE)
     ELSE LET Idx == MinOf(Found)
              S1 == [S EXCEPT !.SpawnQueueInternal[f] =
                        SubSeq(Queue, 1, Idx - 1) \o SubSeq(Queue, Idx + 1, Len(Queue)),
                      !.out = Queue[Idx],
                      !.hist.Cancelled = @ \cup {Queue[Idx].Handle.Hash}]
          IN Ret(S1, HandleIsValid(Queue[Idx].Handle))

\* a faulty ReturnToPool(Handle), which knows the pool entries only
ReturnToPoolHandle_EntriesOnly(S, Handle) ==
  IF ~HandleIsValid(Handle) THEN Ret(S, FALSE)
  ELSE Bind(FindPoolOrAdd(S, Handle.ObjectClass), LAMBDA S1 :
         LET p == FindPool(S1, Handle.ObjectClass)
             i == FindInPoolByHandle(S1.PoolsInternal[p], Handle)
         IN IF i # 0
            THEN ReturnToPoolObject(S1, S1.PoolsInternal[p].PoolObjects[i].PoolObject)
            ELSE Ret(S1, FALSE))
\* UPoolManagerSubsystem::ReturnToPool(const FPoolObjectHandle&)
ReturnToPoolHandle(S, Handle) ==
  IF ~HandleIsValid(Handle) THEN Ret(S, FALSE)
  ELSE Bind(FindPoolOrAdd(S, Handle.ObjectClass), LAMBDA S1 :
         LET p == FindPool(S1, Handle.ObjectClass)
             i == FindInPoolByHandle(S1.PoolsInternal[p], Handle)
         IN IF i # 0
            THEN ReturnToPoolObject(S1, S1.PoolsInternal[p].PoolObjects[i].PoolObject)
            ELSE DequeueSpawnRequestByHandle(S1, S1.PoolsInternal[p].Factory, Handle))

\* a variant whose hash repeats the hash generated before (not the program's
\* behaviour: FGuid::NewGuid gives a new value)
NewHandle_Repeated(S, InObjectClass) ==
  IF InObjectClass = NoClass THEN Ret(S, EmptyHandle)
  ELSE Ret([S EXCEPT !.Handles = Append(@, InObjectClass)],
           [ObjectClass |-> InObjectClass,
            Hash |-> IF Len(S.Handles) = 0 THEN 1 ELSE Len(S.Handles)])
\* FPoolObjectHandle::NewHandle: S.ret is the new handle
NewHandle(S, InObjectClass) ==
  IF InObjectClass = NoClass THEN Ret(S, EmptyHandle)
  ELSE Ret([S EXCEPT !.Handles = Append(@, InObjectClass)],
           [ObjectClass |-> InObjectClass, Hash |-> Len(S.Handles) + 1])

\* a faulty RegisterObjectInPool, which does not look for the object in the pool
RegisterObjectInPool_NoLookup(S, InData) ==
  IF InData.PoolObject = NullObject THEN Ret(S, FALSE)
  ELSE Bind(FindPoolOrAdd(S, S.Objects[InData.PoolObject]), LAMBDA S1 :
         LET ObjectClass == S.Objects[InData.PoolObject]
             p == FindPool(S1, ObjectClass)
         IN Bind(IF HandleIsValid(InData.Handle) THEN Ret(S1, InData.Handle)
                 ELSE NewHandle(S1, ObjectClass), LAMBDA S2 :
              LET Data == [InData EXCEPT !.Handle = S2.ret]
                  S3 == [S2 EXCEPT !.PoolsInternal[p].PoolObjects = Append(@, Data)]
              IN Ret(SetObjectStateInPool(S3, GetState(Data), Data.PoolObject, p), TRUE)))
\* UPoolManagerSubsystem::RegisterObjectInPool_Implementation
RegisterObjectInPool(S, InData) ==
  IF InData.PoolObject = NullObject THEN Ret(S, FALSE)
  ELSE Bind(FindPoolOrAdd(S, S.Objects[InData.PoolObject]), LAMBDA S1 :
         LET ObjectClass == S.Objects[InData.PoolObject]
             p == FindPool(S1, ObjectClass)
         IN IF FindInPoolByObject(S1.PoolsInternal[p], InData.PoolObject) # 0
            THEN Ret(S1, FALSE)
            ELSE Bind(IF HandleIsValid(InData.Handle) THEN Ret(S1, InData.Handle)
                      ELSE NewHandle(S1, ObjectClass), LAMBDA S2 :
                   LET Data == [InData EXCEPT !.Handle = S2.ret]
                       S3 == [S2 EXCEPT !.PoolsInternal[p].PoolObjects = Append(@, Data),
                                        !.hist.Takers[Data.PoolObject] =
                                            IF Data.bIsActive THEN 1 ELSE 0]
                   IN Ret(SetObjectStateInPool(S3, GetState(Data), Data.PoolObject, p),
                          TRUE)))

(***************************************************************************)
(* Callbacks. A callback is a closure chosen by the caller; the model      *)
(* knows these:                                                            *)
(*   "user"    records the completion and does nothing else;               *)
(*   "take"    also asks the pool for one more object of the same class    *)
(*             (while handles remain);                                     *)
(*   "cancel"  also returns the handle it captured (arg) to the pool;      *)
(*   "batch"   OnEachSpawned of CreateNewObjectsArrayInPool for batch arg. *)
(***************************************************************************)
Callback(kind, arg) == [kind |-> kind, arg |-> arg]
HandleOf(S, Hash) == [ObjectClass |-> S.Handles[Hash], Hash |-> Hash]

RECURSIVE RunCallback(_, _, _)

\* UPoolManagerSubsystem::FindPoolObjectByHandle
FindPoolObjectByHandle(S, Handle) ==
  LET p == FindPool(S, Handle.ObjectClass)
      i == IF p = 0 THEN 0 ELSE FindInPoolByHandle(S.PoolsInternal[p], Handle)
  IN IF i = 0 THEN EmptyObject ELSE S.PoolsInternal[p].PoolObjects[i]

\* a variant that answers with the handle of the first entry of the container
\* (not the program's behaviour)
FindPoolHandleByObject_FirstEntry(S, Object) ==
  LET p == IF Object = NullObject THEN 0 ELSE FindPool(S, S.Objects[Object])
  IN IF p = 0 \/ FindInPoolByObject(S.PoolsInternal[p], Object) = 0 THEN EmptyHandle
     ELSE S.PoolsInternal[p].PoolObjects[1].Handle
\* UPoolManagerSubsystem::FindPoolHandleByObject
FindPoolHandleByObject(S, Object) ==
  LET p == IF Object = NullObject THEN 0 ELSE FindPool(S, S.Objects[Object])
      i == IF p = 0 THEN 0 ELSE FindInPoolByObject(S.PoolsInternal[p], Object)
  IN IF i = 0 THEN EmptyHandle ELSE S.PoolsInternal[p].PoolObjects[i].Handle

\* UPoolManagerSubsystem::GetFreeObjectsNum_Implementation
GetFreeObjectsNum(S, ObjectClass) ==
  LET p == FindPool(S, ObjectClass)
  IN IF p = 0 THEN 0
     ELSE Cardinality({i \in 1..Len(S.PoolsInternal[p].PoolObjects) :
                         IsFree(S.PoolsInternal[p].PoolObjects[i])})

\* UPoolManagerSubsystem::GetRegisteredObjectsNum_Implementation
GetRegisteredObjectsNum(S, ObjectClass) ==
  LET p == FindPool(S, ObjectClass)
  IN IF p = 0 THEN 0
     ELSE Cardinality({i \in 1..Len(S.PoolsInternal[p].PoolObjects) :
                         DataIsValid(S.PoolsInternal[p].PoolObjects[i])})

\* UPoolManagerSubsystem::FindPoolObjectsByHandles
FindPoolObjectsByHandles(S, InHandles) ==
  SelectSeq([k \in 1..Len(InHandles) |-> FindPoolObjectByHandle(S, InHandles[k])],
            DataIsValid)

\* UPoolFactory_UObject::OnPreRegistered: the callback CreateNewObjectInPool
\* attaches registers the object in the pool
OnPreRegistered(S, Request, ObjectData) ==
  LET Known == \E p \in 1..Len(S.PoolsInternal) :
                 FindInPoolByObject(S.PoolsInternal[p], ObjectData.PoolObject) # 0
      S1 == Emit(S, Ev("OnPreRegistered", Request.Handle.Hash, ObjectData.PoolObject,
                       IF Known THEN 1 ELSE 0))
  IN RegisterObjectInPool(S1, ObjectData)

\* what the post-spawn callback finds when it is invoked: 1 when the object is
\* in the container of its class, + 2 when it is Active, + 4 when the handle
\* of the request resolves to it
PoolManaged(S, Request, ObjectData) ==
  LET p == FindPool(S, S.Objects[ObjectData.PoolObject])
      InPool == p # 0 /\ FindInPoolByObject(S.PoolsInternal[p], ObjectData.PoolObject) # 0
      Resolved == FindPoolObjectByHandle(S, Request.Handle).PoolObject = ObjectData.PoolObject
  IN (IF InPool THEN 1 ELSE 0)
       + (IF GetPoolObjectState(S, ObjectData.PoolObject) = Active THEN 2 ELSE 0)
       + (IF Resolved THEN 4 ELSE 0)

\* UPoolFactory_UObject::OnPostSpawned
OnPostSpawned(S, Request, ObjectData) ==
  RunCallback(Emit(S, Ev("OnPostSpawned", Request.Handle.Hash, ObjectData.PoolObject,
                         PoolManaged(S, Request, ObjectData))),
              Request.cb, ObjectData)

\* a faulty ProcessRequestNow, which reports the object before it registers it
ProcessRequestNow_PostFirst(S, f, Request) ==
  LET CreatedObject == Len(S.Objects) + 1
      S1 == [S EXCEPT !.Objects = Append(@, Request.Handle.ObjectClass),
                      !.hist.Takers = Append(@, 0),
                      !.hist.Materialized = @ \cup {Request.Handle.Hash}]
      S2 == Emit(S1, Ev("SpawnNow", Request.Handle.Hash, CreatedObject, Request.Priority))
      ObjectData == [bIsActive |-> TRUE, PoolObject |-> CreatedObject,
                     Handle |-> Request.Handle]
      S3 == OnPostSpawned(S2, Request, ObjectData)
  IN OnPreRegistered(S3, Request, ObjectData)
\* UPoolFactory_UObject::ProcessRequestNow (with SpawnNow) of factory f
ProcessRequestNow(S, f, Request) ==
  LET CreatedObject == Len(S.Objects) + 1
      S1 == [S EXCEPT !.Objects = Append(@, Request.Handle.ObjectClass),
                      !.hist.Takers = Append(@, 0),
                      !.hist.Materialized = @ \cup {Request.Handle.Hash},
                      !.hist.Stale = @ \cup ({f} \ S.AllFactoriesInternal)]
      S2 == Emit(S1, Ev("SpawnNow", Request.Handle.Hash, CreatedObject, Request.Priority))
      ObjectData == [bIsActive |-> TRUE, PoolObject |-> CreatedObject,
                     Handle |-> Request.Handle]
      S3 == OnPreRegistered(S2, Request, ObjectData)
  IN OnPostSpawned(S3, Request, ObjectData)

\* the lambda FindInsertionIndex of RequestSpawn_Implementation
RECURSIVE FindInsertionIndexFrom(_, _, _)
FindInsertionIndexFrom(Queue, Priority, Index) ==
  IF Index > Len(Queue) THEN Index - 1
  ELSE IF Queue[Index].Priority < Priority THEN Index - 1
  ELSE FindInsertionIndexFrom(Queue, Priority, Index + 1)

\* a faulty FindInsertionIndex, which goes ahead of the requests of equal priority
FindInsertionIndex_BeforeEquals(Queue, Priority) ==
  Cardinality({k \in 1..Len(Queue) : Queue[k].Priority > Priority})
\* a faulty FindInsertionIndex, which always answers the end of the queue
FindInsertionIndex_AtEnd(Queue, Priority) == Len(Queue)
FindInsertionIndex(Queue, Priority) == FindInsertionIndexFrom(Queue, Priority, 1)

\* TArray::Insert at a 0-based index
InsertAt(Queue, Request, InsertIdx) ==
  SubSeq(Queue, 1, InsertIdx) \o <<Request>> \o SubSeq(Queue, InsertIdx + 1, Len(Queue))

\* a variant with one timer for all factories (not the program's behaviour)
SetTimerForNextTick_Shared(S, f) ==
  [S EXCEPT !.Timers = [g \in Classes |-> S.Timers[g] + 1]]
\* FTimerManager::SetTimerForNextTick(this, OnNextTickProcessSpawn): every call
\* adds one more timer, which fires once, on the next tick
SetTimerForNextTick(S, f) == [S EXCEPT !.Timers[f] = @ + 1]

\* a faulty RequestSpawn, which queues a Critical request like a High one
RequestSpawn_CriticalQueued(S, f, Request) ==
  IF ~HandleIsValid(Request.Handle) THEN S
  ELSE LET Queue == S.SpawnQueueInternal[f]
           S1 == [S EXCEPT !.SpawnQueueInternal[f] =
                    InsertAt(Queue, Request, FindInsertionIndex(Queue, Request.Priority))]
       IN IF Len(S1.SpawnQueueInternal[f]) = 1 THEN SetTimerForNextTick(S1, f) ELSE S1
\* a faulty RequestSpawn, which queues the request and sets no timer
RequestSpawn_NoTimer(S, f, Request) ==
  IF ~HandleIsValid(Request.Handle) THEN S
  ELSE IF Request.Priority = Critical THEN ProcessRequestNow(S, f, Request)
  ELSE LET Queue == S.SpawnQueueInternal[f]
       IN IF Request.Priority \in {High, Medium}
          THEN [S EXCEPT !.SpawnQueueInternal[f] =
                   InsertAt(Queue, Request, FindInsertionIndex(Queue, Request.Priority))]
          ELSE [S EXCEPT !.SpawnQueueInternal[f] = Append(Queue, Request)]
\* a faulty RequestSpawn, which leaves the switch after a Critical request and
\* goes on to the check that sets the timer
RequestSpawn_CriticalBreaks(S, f, Request) ==
  IF ~HandleIsValid(Request.Handle) THEN S
  ELSE LET Queue == S.SpawnQueueInternal[f]
       IN Bind(IF Request.Priority = Critical THEN ProcessRequestNow(S, f, Request)
               ELSE IF Request.Priority \in {High, Medium}
               THEN [S EXCEPT !.SpawnQueueInternal[f] =
                        InsertAt(Queue, Request, FindInsertionIndex(Queue, Request.Priority))]
               ELSE [S EXCEPT !.SpawnQueueInternal[f] = Append(Queue, Request)], LAMBDA S1 :
            IF Len(S1.SpawnQueueInternal[f]) = 1 THEN SetTimerForNextTick(S1, f) ELSE S1)
\* UPoolFactory_UObject::RequestSpawn_Implementation of factory f
RequestSpawn(S, f, Request) ==
  IF ~HandleIsValid(Request.Handle) THEN S
  ELSE IF Request.Priority = Critical THEN ProcessRequestNow(S, f, Request)
  ELSE LET Queue == S.SpawnQueueInternal[f]
       IN Bind(IF Request.Priority \in {High, Medium}
               THEN [S EXCEPT !.SpawnQueueInternal[f] =
                        InsertAt(Queue, Request, FindInsertionIndex(Queue, Request.Priority)),
                      !.hist.Stale = @ \cup ({f} \ S.AllFactoriesInternal)]
               ELSE [S EXCEPT !.SpawnQueueInternal[f] = Append(Queue, Request),
                              !.hist.Stale = @ \cup ({f} \ S.AllFactoriesInternal)], LAMBDA S1 :
            IF Len(S1.SpawnQueueInternal[f]) = 1 THEN SetTimerForNextTick(S1, f) ELSE S1)

\* UPoolManagerSubsystem::CreateNewObjectInPool_Implementation; S.ret is the handle
CreateNewObjectInPool(S, InRequest) ==
  IF InRequest.Handle.ObjectClass = NoClass THEN Ret(S, EmptyHandle)
  ELSE Bind(IF HandleIsValid(InRequest.Handle) THEN Ret(S, InRequest.Handle)
            ELSE NewHandle(S, InRequest.Handle.ObjectClass), LAMBDA S1 :
         Bind(FindPoolOrAdd(S1, S1.ret.ObjectClass), LAMBDA S2 :
           LET Request == [InRequest EXCEPT !.Handle = S1.ret]
               p == FindPool(S2, Request.Handle.ObjectClass)
           IN Ret(RequestSpawn(S2, S2.PoolsInternal[p].Factory, Request), Request.Handle)))

\* FSpawnRequest(const UClass*): the handle is generated, the priority is Normal
SpawnRequest(Handle, Priority, cb) == [Handle |-> Handle, Priority |-> Priority, cb |-> cb]

\* a faulty TakeFromPool, which on a miss has the object spawned inside the call
TakeFromPool_SpawnInside(S, ObjectClass, Completed) ==
  Bind(TakeFromPoolOrNull(S, ObjectClass), LAMBDA S1 :
    IF DataIsValid(S1.ret)
    THEN Ret(RunCallback(S1, Completed, S1.ret), S1.ret.Handle)
    ELSE Bind(NewHandle(S1, ObjectClass), LAMBDA S2 :
           CreateNewObjectInPool(S2, SpawnRequest(S2.ret, Critical, Completed))))
\* a faulty TakeFromPool, which requests a spawn also when the pool served the take
TakeFromPool_AlwaysSpawn(S, ObjectClass, Completed) ==
  LET S1 == TakeFromPoolOrNull(S, ObjectClass)
      ObjectData == S1.ret
      S2 == IF DataIsValid(ObjectData) THEN RunCallback(S1, Completed, ObjectData) ELSE S1
      S3 == NewHandle(S2, ObjectClass)
      S4 == CreateNewObjectInPool(S3, SpawnRequest(S3.ret, Normal, Completed))
  IN IF DataIsValid(ObjectData) THEN Ret(S4, ObjectData.Handle) ELSE S4
\* UPoolManagerSubsystem::TakeFromPool; S.ret is the handle
TakeFromPool(S, ObjectClass, Completed) ==
  Bind(TakeFromPoolOrNull(S, ObjectClass), LAMBDA S1 :
    IF DataIsValid(S1.ret)
    THEN Ret(RunCallback(S1, Completed, S1.ret), S1.ret.Handle)
    ELSE Bind(NewHandle(S1, ObjectClass), LAMBDA S2 :
           CreateNewObjectInPool(S2, SpawnRequest(S2.ret, Normal, Completed))))

\* the callbacks themselves
RunCallback(S, cb, ObjectData) ==
  CASE cb.kind = "user" ->
         Emit(S, Ev("Completed", ObjectData.Handle.Hash, ObjectData.PoolObject, 0))
    [] cb.kind = "take" ->
         LET S1 == Emit(S, Ev("Completed", ObjectData.Handle.Hash, ObjectData.PoolObject, 0))
         IN IF Len(S1.Handles) < MaxHandles
            THEN TakeFromPool(S1, ObjectData.Handle.ObjectClass, Callback("user", 0))
            ELSE S1
    [] cb.kind = "cancel" ->
         LET S1 == Emit(S, Ev("Completed", ObjectData.Handle.Hash, ObjectData.PoolObject, 0))
         IN ReturnToPoolHandle(S1, HandleOf(S1, cb.arg))
    [] cb.kind = "batch" ->
         \* OnEachSpawned: only the last submitted handle reports the batch
         IF ~HandleEq(ObjectData.Handle, S.Batches[cb.arg].LastHandleRequest)
         THEN S
         ELSE LET AllHandles == S.Batches[cb.arg].OutAllHandles
                  OutObjects == FindPoolObjectsByHandles(S, AllHandles)
              IN Emit([S EXCEPT !.Batches[cb.arg].Fired = @ + 1],
                      Ev("BatchCompleted", ObjectData.Handle.Hash, cb.arg, Len(OutObjects)))

(***************************************************************************)
(* Take From Pool (multiple objects)                                       *)
(***************************************************************************)
\* UPoolManagerSubsystem::TakeFromPoolArrayOrNull from request k on:
\* S.ret collects OutObjects, S.out the requests with the handles of the hits
RECURSIVE TakeFromPoolArrayOrNullFrom(_, _)
TakeFromPoolArrayOrNullFrom(S, k) ==
  IF k > Len(S.out) THEN S
  ELSE Bind(TakeFromPoolOrNull(S, S.out[k].Handle.ObjectClass), LAMBDA S1 :
         TakeFromPoolArrayOrNullFrom(
           IF DataIsValid(S1.ret)
           THEN [S1 EXCEPT !.ret = Append(S.ret, S1.ret),
                           !.out = [S.out EXCEPT ![k].Handle = S1.ret.Handle]]
           ELSE [S1 EXCEPT !.ret = S.ret, !.out = S.out],
           k + 1))

TakeFromPoolArrayOrNull(S, InRequests) ==
  TakeFromPoolArrayOrNullFrom([S EXCEPT !.ret = <<>>, !.out = InRequests], 1)

\* FPoolObjectHandle::Conv_ObjectsToHandles and Conv_RequestsToHandles
Conv_ToHandles(InData) == [k \in 1..Len(InData) |-> InData[k].Handle]

\* FSpawnRequest::FilterRequests
FilterRequests(InOutRequests, FreeObjectsData) ==
  LET Taken(Request) == \E k \in 1..Len(FreeObjectsData) :
                           HandleEq(FreeObjectsData[k].Handle, Request.Handle)
      Left(Request) == ~Taken(Request)
  IN SelectSeq(InOutRequests, Left)

\* the loop of CreateNewObjectsArrayInPool from request k on
RECURSIVE CreateEachInPoolFrom(_, _, _, _)
CreateEachInPoolFrom(S, InRequests, OnEachSpawned, k) ==
  IF k > Len(InRequests) THEN S
  ELSE CreateEachInPoolFrom(
         CreateNewObjectInPool(S, [InRequests[k] EXCEPT !.cb = OnEachSpawned]),
         InRequests, OnEachSpawned, k + 1)

\* UPoolManagerSubsystem::CreateNewObjectsArrayInPool with Completed set;
\* S.ret is OutAllHandles
CreateNewObjectsArrayInPool(S, InRequests, OutHandles) ==
  LET OutAllHandles == OutHandles \o Conv_ToHandles(InRequests)
      S1 == [S EXCEPT !.Batches = Append(@,
                [OutAllHandles |-> OutAllHandles,
                 LastHandleRequest |-> InRequests[Len(InRequests)].Handle,
                 Fired |-> 0])]
      OnEachSpawned == Callback("batch", Len(S1.Batches))
  IN Ret(CreateEachInPoolFrom(S1, InRequests, OnEachSpawned, 1), OutAllHandles)

\* the handles the constructor FSpawnRequest(const UClass*) generated for the
\* requests that were not served from the pool (a handle that is overwritten
\* by the handle of a pool hit is never seen again and is not generated here)
RECURSIVE GenerateHandlesFrom(_, _, _)
GenerateHandlesFrom(S, InRequests, k) ==
  IF k > Len(InRequests) THEN [S EXCEPT !.out = InRequests]
  ELSE IF HandleIsValid(InRequests[k].Handle)
       THEN GenerateHandlesFrom(S, InRequests, k + 1)
       ELSE Bind(NewHandle(S, InRequests[k].Handle.ObjectClass), LAMBDA S1 :
              GenerateHandlesFrom(S1, [InRequests EXCEPT ![k].Handle = S1.ret], k + 1))

\* UPoolManagerSubsystem::TakeFromPoolArray(OutHandles, InRequests, Completed);
\* S.ret is OutHandles
TakeFromPoolArray(S, InRequests) ==
  IF Len(InRequests) = 0 THEN Ret(S, <<>>)
  ELSE Bind(TakeFromPoolArrayOrNull(S, InRequests), LAMBDA S1 :
         LET FreeObjectsData == S1.ret
             OutHandles == Conv_ToHandles(FreeObjectsData)
             Difference == Len(InRequests) - Len(FreeObjectsData)
         IN IF Difference = 0
            THEN Ret(Emit(S1, Ev("BatchCompleted", 0, 0, Len(FreeObjectsData))), OutHandles)
            ELSE Bind(GenerateHandlesFrom(S1, S1.out, 1), LAMBDA S2 :
                   CreateNewObjectsArrayInPool(S2, FilterRequests(S2.out, FreeObjectsData),
                                               OutHandles)))

(***************************************************************************)
(* The queue drain                                                         *)
(***************************************************************************)
\* a faulty DequeueSpawnRequest, which copies the first request and leaves it queued
DequeueSpawnRequest_KeepQueued(S, f) ==
  LET Queue == S.SpawnQueueInternal[f]
  IN IF Len(Queue) = 0 THEN Ret(S, FALSE)
     ELSE Ret([S EXCEPT !.out = Queue[1]], HandleIsValid(Queue[1].Handle))
\* UPoolFactory_UObject::DequeueSpawnRequest of factory f;
\* S.ret is the result, S.out the request
DequeueSpawnRequest(S, f) ==
  LET Queue == S.SpawnQueueInternal[f]
  IN IF Len(Queue) = 0 THEN Ret(S, FALSE)
     ELSE Ret([S EXCEPT !.SpawnQueueInternal[f] = Tail(Queue), !.out = Queue[1]],
              HandleIsValid(Queue[1].Handle))

\* the for loop of OnNextTickProcessSpawn_Implementation
RECURSIVE ProcessSpawnLoop(_, _, _, _)
ProcessSpawnLoop(S, f, Index, NumToSpawn) ==
  IF Index >= NumToSpawn THEN S
  ELSE Bind(DequeueSpawnRequest(S, f), LAMBDA S1 :
         ProcessSpawnLoop(
           IF S1.ret
           THEN ProcessRequestNow([S1 EXCEPT !.hist.Spawned[f] = @ + 1], f, S1.out)
           ELSE S1,
           f, Index + 1, NumToSpawn))

\* a faulty ObjectsPerFrame, which takes the setting as it is
ObjectsPerFrame_Unclamped == SpawnObjectsPerFrame
\* UPoolManagerSettings::GetSpawnObjectsPerFrame, as OnNextTickProcessSpawn clamps it
ObjectsPerFrame == IF SpawnObjectsPerFrame >= 1 THEN SpawnObjectsPerFrame ELSE 1

\* a faulty OnNextTickProcessSpawn, which leaves the rest of the queue without a timer
OnNextTickProcessSpawn_NoReschedule(S, f) ==
  LET Num == Len(S.SpawnQueueInternal[f])
      NumToSpawn == IF ObjectsPerFrame < Num THEN ObjectsPerFrame ELSE Num
  IN ProcessSpawnLoop(S, f, 0, NumToSpawn)
\* UPoolFactory_UObject::OnNextTickProcessSpawn_Implementation of factory f
OnNextTickProcessSpawn(S, f) ==
  LET Num == Len(S.SpawnQueueInternal[f])
      NumToSpawn == IF ObjectsPerFrame < Num THEN ObjectsPerFrame ELSE Num
  IN Bind(ProcessSpawnLoop(S, f, 0, NumToSpawn), LAMBDA S1 :
       IF Len(S1.SpawnQueueInternal[f]) # 0 THEN SetTimerForNextTick(S1, f) ELSE S1)

(***************************************************************************)
(* Factories                                                               *)
(***************************************************************************)
\* a variant that constructs a factory also when the class has one: the new
\* instance has no request and no timer (not the program's behaviour)
AddFactory_Replace(S, ObjectClass) ==
  IF ObjectClass = NoClass THEN S
  ELSE [S EXCEPT !.AllFactoriesInternal = @ \cup {ObjectClass},
                 !.SpawnQueueInternal = [f \in Classes |->
                     IF f = ObjectClass THEN <<>> ELSE S.SpawnQueueInternal[f]],
                 !.Timers = [f \in Classes |->
                     IF f = ObjectClass THEN 0 ELSE S.Timers[f]]]
\* UPoolManagerSubsystem::AddFactory of the factory class that handles ObjectClass
AddFactory(S, ObjectClass) ==
  IF ObjectClass = NoClass \/ ObjectClass \in S.AllFactoriesInternal THEN S
  ELSE [S EXCEPT !.AllFactoriesInternal = @ \cup {ObjectClass}]

\* UPoolManagerSubsystem::RemoveFactory: the factory is destroyed and leaves the
\* map; what it holds (its queue, its timers) and the pointers the containers
\* keep to it are not touched
RemoveFactory(S, ObjectClass) ==
  IF ObjectClass = NoClass \/ ObjectClass \notin S.AllFactoriesInternal THEN S
  ELSE [S EXCEPT !.AllFactoriesInternal = @ \ {ObjectClass}]

(***************************************************************************)
(* Empty Pool                                                              *)
(***************************************************************************)
\* IsValid(const UObject*)
ObjectIsValid(S, Object) == Object # NullObject /\ Object \notin S.Destroyed

\* UPoolFactory_UObject::Destroy_Implementation of factory f
Destroy(S, f, Object) ==
  Emit([S EXCEPT !.Destroyed = @ \cup {Object}], Ev("Destroy", 0, Object, 0))

\* a faulty RemoveAt, which fills the gap with the last element (RemoveAtSwap)
RemoveAt_Swap(Array, Index) ==
  IF Index = Len(Array) THEN SubSeq(Array, 1, Len(Array) - 1)
  ELSE SubSeq([Array EXCEPT ![Index] = Array[Len(Array)]], 1, Len(Array) - 1)
\* TArray::RemoveAt at a 1-based index
RemoveAt(Array, Index) ==
  SubSeq(Array, 1, Index - 1) \o SubSeq(Array, Index + 1, Len(Array))

\* the loop of EmptyPool_Implementation over the container with index p, from
\* entry Index down
RECURSIVE EmptyPoolFrom(_, _, _)
EmptyPoolFrom(S, p, Index) ==
  IF Index < 1 THEN S
  ELSE LET ObjectIt == S.PoolsInternal[p].PoolObjects[Index].PoolObject
       IN EmptyPoolFrom(IF ObjectIsValid(S, ObjectIt)
                        THEN Destroy(S, S.PoolsInternal[p].Factory, ObjectIt)
                        ELSE S,
                        p, Index - 1)

\* a faulty EmptyPool, which destroys the objects and keeps their entries
EmptyPool_KeepEntries(S, ObjectClass) ==
  LET p == FindPool(S, ObjectClass)
  IN IF p = 0 THEN S
     ELSE EmptyPoolFrom(S, p, Len(S.PoolsInternal[p].PoolObjects))
\* a variant that takes the emptied container out of the array (not the
\* program's behaviour)
EmptyPool_RemoveContainer(S, ObjectClass) ==
  LET p == FindPool(S, ObjectClass)
  IN IF p = 0 THEN S
     ELSE Bind(EmptyPoolFrom(S, p, Len(S.PoolsInternal[p].PoolObjects)), LAMBDA S1 :
            [S1 EXCEPT !.PoolsInternal = RemoveAt(@, p)])
\* UPoolManagerSubsystem::EmptyPool_Implementation
EmptyPool(S, ObjectClass) ==
  LET p == FindPool(S, ObjectClass)
  IN IF p = 0 THEN S
     ELSE Bind(EmptyPoolFrom(S, p, Len(S.PoolsInternal[p].PoolObjects)), LAMBDA S1 :
            [S1 EXCEPT !.PoolsInternal[p].PoolObjects = <<>>])

\* the loop of EmptyAllPools_Implementation, from container Index down
RECURSIVE EmptyAllPoolsFrom(_, _)
EmptyAllPoolsFrom(S, Index) ==
  IF Index < 1 THEN S
  ELSE EmptyAllPoolsFrom(
         IF Index <= Len(S.PoolsInternal)
         THEN EmptyPool(S, S.PoolsInternal[Index].ObjectClass)
         ELSE S,
         Index - 1)

\* a variant that also drops the requests and the timers of the factories
\* (not the program's behaviour)
EmptyAllPools_WithRequests(S) ==
  Bind(EmptyAllPoolsFrom(S, Len(S.PoolsInternal)), LAMBDA S1 :
    [S1 EXCEPT !.PoolsInternal = <<>>,
               !.SpawnQueueInternal = [f \in Classes |-> <<>>],
               !.Timers = [f \in Classes |-> 0]])
\* UPoolManagerSubsystem::EmptyAllPools_Implementation
EmptyAllPools(S) ==
  Bind(EmptyAllPoolsFrom(S, Len(S.PoolsInternal)), LAMBDA S1 :
    [S1 EXCEPT !.PoolsInternal = <<>>])

\* UPoolManagerSubsystem::ContainsClassInPool_Implementation
ContainsClassInPool(S, ObjectClass) == FindPool(S, ObjectClass) # 0

\* the inner loop of EmptyAllByPredicate; Predicate is the set of the objects
\* the functor answers true for
RECURSIVE EmptyObjectsByPredicateFrom(_, _, _, _)
EmptyObjectsByPredicateFrom(S, Predicate, p, ObjectIndex) ==
  IF ObjectIndex < 1 THEN S
  ELSE LET ObjectIt == S.PoolsInternal[p].PoolObjects[ObjectIndex].PoolObject
       IN EmptyObjectsByPredicateFrom(
            IF ~ObjectIsValid(S, ObjectIt) \/ ObjectIt \notin Predicate THEN S
            ELSE Bind(Destroy(S, S.PoolsInternal[p].Factory, ObjectIt), LAMBDA S1 :
                   [S1 EXCEPT !.PoolsInternal[p].PoolObjects = RemoveAt(@, ObjectIndex)]),
            Predicate, p, ObjectIndex - 1)

\* the outer loop of EmptyAllByPredicate, from container PoolIndex down
RECURSIVE EmptyPoolsByPredicateFrom(_, _, _)
EmptyPoolsByPredicateFrom(S, Predicate, PoolIndex) ==
  IF PoolIndex < 1 THEN S
  ELSE EmptyPoolsByPredicateFrom(
         EmptyObjectsByPredicateFrom(S, Predicate, PoolIndex,
                                     Len(S.PoolsInternal[PoolIndex].PoolObjects)),
         Predicate, PoolIndex - 1)

\* UPoolManagerSubsystem::EmptyAllByPredicate
EmptyAllByPredicate(S, Predicate) ==
  EmptyPoolsByPredicateFrom(S, Predicate, Len(S.PoolsInternal))

(***************************************************************************)
(* The state machine                                                       *)
(***************************************************************************)
Factories == {"UObject", "AActor"}
ZeroOf(Set) == [f \in Set |-> 0]
NoCall == [op |-> "Init", class |-> NoClass, hash |-> 0, obj |-> 0, res |-> 0, cb |-> ""]
CallCb(op, class, hash, obj, res, cb) ==
  [op |-> op, class |-> class, hash |-> hash, obj |-> obj, res |-> res, cb |-> cb]
Call(op, class, hash, obj, res) == CallCb(op, class, hash, obj, res, "")
BoolCode(b) == IF b THEN 1 ELSE 0

(***************************************************************************)
(* History kept for the properties (it does not influence the program):    *)
(*   Takers[o]     how many callers hold object o since its last return    *)
(*   Materialized  hashes of the requests that were spawned                *)
(*   Cancelled     hashes of the requests taken out of a queue by handle   *)
(*   Returned      hashes a caller passed to ReturnToPool(Handle) while    *)
(*                 their request was waiting in a queue                    *)
(*   Spawned[f]    queued requests factory f spawned in the running tick   *)
(*   External      objects created by outer code                           *)
(*   burst[f]      the run of Normal requests that began on an empty queue *)
(*                 of f: their hashes, the ticks since, and whether        *)
(*                 nothing else was submitted or cancelled meanwhile       *)
(*   rt            progress of a take / return by handle / take-or-null    *)
(*                 sequence of consecutive calls                           *)
(*   Stale         factories that received a request or spawned an object  *)
(*                 after RemoveFactory took them out of the map            *)
(***************************************************************************)
NoBurst == [hs |-> <<>>, ticks |-> 0, clean |-> FALSE]
NoRoundTrip == [stage |-> 0, class |-> NoClass, hash |-> 0, obj |-> 0, objs |-> 0, res |-> 0]

\* the state after Initialize, with the factories and a rate of the settings
InitOf(PoolFactories, PerFrame) ==
  /\ SpawnObjectsPerFrame \in PerFrame
  /\ AllFactoriesInternal = PoolFactories
  /\ PoolsInternal = <<>>
  /\ SpawnQueueInternal = [f \in Classes |-> <<>>]
  /\ Timers = ZeroOf(Classes)
  /\ Due = ZeroOf(Classes)
  /\ Handles = <<>>
  /\ Objects = <<>>
  /\ Destroyed = {}
  /\ Batches = <<>>
  /\ call = NoCall
  /\ trace = <<>>
  /\ hist = [Takers |-> <<>>, Materialized |-> {}, Cancelled |-> {}, Returned |-> {},
             Spawned |-> ZeroOf(Classes), External |-> 0,
             burst |-> [f \in Classes |-> NoBurst], rt |-> NoRoundTrip,
             Stale |-> {}]

Init == InitOf(Factories, Rates)

\* the hashes that wait in a queue
QueuedIn(Queue) == {Queue[k].Handle.Hash : k \in 1..Len(Queue)}
Pending == UNION {QueuedIn(SpawnQueueInternal[f]) : f \in Classes}

\* the state an operation starts from
Start ==
  [AllFactoriesInternal |-> AllFactoriesInternal,
   PoolsInternal |-> PoolsInternal, SpawnQueueInternal |-> SpawnQueueInternal,
   Timers |-> Timers, Handles |-> Handles, Objects |-> Objects,
   Destroyed |-> Destroyed, Batches |-> Batches, trace |-> <<>>, hist |-> hist, ret |-> FALSE, out |-> FALSE]

\* burst[f] after an operation that ends in S
BurstNext(S, c, f) ==
  LET b == hist.burst[f]
      q0 == SpawnQueueInternal[f]
      q1 == S.SpawnQueueInternal[f]
      Done == \A k \in 1..Len(b.hs) : b.hs[k] \in hist.Materialized
      Appended == /\ Len(q1) = Len(q0) + 1
                  /\ SubSeq(q1, 1, Len(q0)) = q0
      Plain == /\ c.op \in {"TakeFromPool", "CreateNewObjectInPool"}
               /\ c.cb = "user"
               /\ Appended
               /\ q1[Len(q1)].Priority = Normal
               /\ S.hist.Materialized = hist.Materialized
  IN IF c.op = "Tick"
     THEN IF b.clean /\ ~Done THEN [b EXCEPT !.ticks = @ + 1] ELSE b
     ELSE IF c.op = "OnNextTickProcessSpawn" THEN b
     ELSE IF /\ q1 = q0
             /\ S.hist.Materialized = hist.Materialized
             /\ S.hist.Cancelled = hist.Cancelled
          THEN b
     ELSE IF Plain /\ Len(q0) = 0
          THEN [hs |-> <<q1[1].Handle.Hash>>, ticks |-> 0, clean |-> TRUE]
     ELSE IF Plain /\ b.clean /\ b.ticks = 0
          THEN [b EXCEPT !.hs = Append(@, q1[Len(q1)].Handle.Hash)]
     ELSE NoBurst

\* rt after an operation that ends in S
RoundTripNext(S, c) ==
  LET rt == hist.rt
  IN IF c.op = "TakeFromPool" /\ c.cb = "user"
     THEN [stage |-> 1, class |-> c.class, hash |-> c.hash, obj |-> c.obj,
           objs |-> Len(S.Objects), res |-> 0]
     ELSE IF c.op = "ReturnToPoolHandle" /\ rt.stage = 1 /\ c.hash = rt.hash
          THEN [rt EXCEPT !.stage = 2, !.res = c.res]
     ELSE IF c.op = "TakeFromPoolOrNull" /\ rt.stage = 2 /\ c.class = rt.class
          THEN [rt EXCEPT !.stage = 3]
     ELSE NoRoundTrip

\* the state an operation leaves
Commit(S, c) ==
  /\ PoolsInternal' = S.PoolsInternal
  /\ SpawnQueueInternal' = S.SpawnQueueInternal
  /\ Timers' = S.Timers
  /\ Handles' = S.Handles
  /\ Objects' = S.Objects
  /\ Destroyed' = S.Destroyed
  /\ Batches' = S.Batches
  /\ trace' = S.trace
  /\ hist' = [S.hist EXCEPT !.burst = [f \in Classes |-> BurstNext(S, c, f)],
                            !.rt = RoundTripNext(S, c),
                            !.Returned =
                              IF c.op = "ReturnToPoolHandle" /\ c.hash \in Pending
                              THEN @ \cup {c.hash} ELSE @]
  /\ call' = c
  /\ AllFactoriesInternal' = S.AllFactoriesInternal
  /\ UNCHANGED SpawnObjectsPerFrame

\* no timer callback of the running tick is left to run
BetweenTicks == \A f \in Classes : Due[f] = 0

\* the callbacks a caller may pass; a cancelling callback captures the handle
\* that was generated last before the call
UserCallbacks == {Callback("user", 0), Callback("take", 0)}
                   \cup {Callback("cancel", h) : h \in {Len(Handles)} \ {0}}

HasFree(ObjectClass) ==
  \E p \in 1..Len(PoolsInternal) :
    /\ PoolsInternal[p].ObjectClass = ObjectClass
    /\ \E i \in 1..Len(PoolsInternal[p].PoolObjects) : IsFree(PoolsInternal[p].PoolObjects[i])

DoTakeFromPool(ObjectClass, Completed) ==
  /\ BetweenTicks
  /\ HasFree(ObjectClass) \/ Len(Handles) < MaxHandles
  /\ Bind(TakeFromPool(Start, ObjectClass, Completed), LAMBDA S :
       Commit(S, CallCb("TakeFromPool", ObjectClass, S.ret.Hash,
                        IF HasFree(ObjectClass) THEN S.trace[1].o ELSE 0,
                        BoolCode(HasFree(ObjectClass)), Completed.kind)))
  /\ UNCHANGED Due

DoTakeFromPoolOrNull(ObjectClass) ==
  /\ BetweenTicks
  /\ Bind(TakeFromPoolOrNull(Start, ObjectClass), LAMBDA S :
       Commit(S, Call("TakeFromPoolOrNull", ObjectClass, S.ret.Handle.Hash,
                      S.ret.PoolObject, 0)))
  /\ UNCHANGED Due

DoCreateNewObjectInPool(ObjectClass, Priority, Completed) ==
  /\ BetweenTicks
  /\ Len(Handles) < MaxHandles
  /\ Bind(NewHandle(Start, ObjectClass), LAMBDA S1 :
       Bind(CreateNewObjectInPool(S1, SpawnRequest(S1.ret, Priority, Completed)), LAMBDA S :
         Commit(S, CallCb("CreateNewObjectInPool", ObjectClass, S.ret.Hash, 0, Priority,
                          Completed.kind))))
  /\ UNCHANGED Due

\* the requests a caller may pass to TakeFromPoolArray: a class and a priority each
BatchRequests(Cls, Prios) ==
  UNION {[1..n -> [ObjectClass : Cls, Priority : Prios]] : n \in 1..MaxBatch}

DoTakeFromPoolArray(Requests) ==
  /\ BetweenTicks
  /\ Len(Handles) + Len(Requests) <= MaxHandles
  /\ LET InRequests == [k \in 1..Len(Requests) |->
                          SpawnRequest([ObjectClass |-> Requests[k].ObjectClass, Hash |-> 0],
                                       Requests[k].Priority, Callback("user", 0))]
     IN Bind(TakeFromPoolArray(Start, InRequests), LAMBDA S :
          Commit(S, Call("TakeFromPoolArray", NoClass, 0, 0, Len(S.ret))))
  /\ UNCHANGED Due

DoReturnToPoolHandle(Hash) ==
  /\ BetweenTicks
  /\ Bind(ReturnToPoolHandle(Start, HandleOf(Start, Hash)), LAMBDA S :
       Commit(S, Call("ReturnToPoolHandle", NoClass, Hash, 0, BoolCode(S.ret))))
  /\ UNCHANGED Due

DoReturnToPoolObject(Object) ==
  /\ BetweenTicks
  /\ Bind(ReturnToPoolObject(Start, Object), LAMBDA S :
       Commit(S, Call("ReturnToPool", NoClass, 0, Object, BoolCode(S.ret))))
  /\ UNCHANGED Due

\* outer code creates an object and registers it, active or not, without a handle
DoRegisterObjectInPool(ObjectClass, bIsActive) ==
  /\ BetweenTicks
  /\ hist.External < MaxExternal
  /\ Len(Handles) < MaxHandles
  /\ LET Object == Len(Objects) + 1
         S1 == [Start EXCEPT !.Objects = Append(@, ObjectClass),
                             !.hist.Takers = Append(@, 0),
                             !.hist.External = @ + 1]
     IN Bind(RegisterObjectInPool(S1, [bIsActive |-> bIsActive, PoolObject |-> Object,
                                       Handle |-> EmptyHandle]), LAMBDA S :
          Commit(S, Call("RegisterObjectInPool", ObjectClass, 0, Object, BoolCode(S.ret))))
  /\ UNCHANGED Due

\* FTimerManager::Tick: the timers set before this tick fire in it
TickBegin ==
  /\ BetweenTicks
  /\ \E f \in Classes : Timers[f] > 0
  /\ Due' = Timers
  /\ Commit([Start EXCEPT !.Timers = ZeroOf(Classes),
                          !.hist.Spawned = ZeroOf(Classes)],
            Call("Tick", NoClass, 0, 0, 0))

\* one timer of factory f fires
DoOnNextTickProcessSpawn(f) ==
  /\ Due[f] > 0
  /\ Due' = [Due EXCEPT ![f] = @ - 1]
  /\ Commit(OnNextTickProcessSpawn(Start, f),
            Call("OnNextTickProcessSpawn", f, 0, 0, 0))

\* the steps of the program for one class with its factory, every priority
\* and every callback
OneClass == {"AActor"}
Next ==
  \/ \E c \in OneClass, cb \in UserCallbacks : DoTakeFromPool(c, cb)
  \/ \E c \in OneClass : DoTakeFromPoolOrNull(c)
  \/ \E c \in OneClass, pr \in Priorities, cb \in UserCallbacks :
       DoCreateNewObjectInPool(c, pr, cb)
  \/ \E rs \in BatchRequests(OneClass, {Normal, High}) : DoTakeFromPoolArray(rs)
  \/ \E h \in 1..Len(Handles) : DoReturnToPoolHandle(h)
  \/ \E o \in 1..Len(Objects) : DoReturnToPoolObject(o)
  \/ \E c \in OneClass, a \in BOOLEAN : DoRegisterObjectInPool(c, a)
  \/ TickBegin
  \/ \E f \in OneClass : DoOnNextTickProcessSpawn(f)

Spec == Init /\ [][Next]_vars

\* two classes with a factory each: Normal requests with passive callbacks,
\* batches, returns by handle and the ticks
NextTypes ==
  \/ \E c \in Classes : DoCreateNewObjectInPool(c, Normal, Callback("user", 0))
  \/ \E rs \in BatchRequests(Classes, {Normal}) : DoTakeFromPoolArray(rs)
  \/ \E h \in 1..Len(Handles) : DoReturnToPoolHandle(h)
  \/ TickBegin
  \/ \E f \in Classes : DoOnNextTickProcessSpawn(f)

SpecTypes == Init /\ [][NextTypes]_vars

(***************************************************************************)
(* The pool store: objects of outer code, registration, returns by object  *)
(* and by handle, direct use of the factory's queue, and eviction.         *)
(***************************************************************************)
\* the objects that exist (created and not destroyed)
LiveObjects == {o \in 1..Len(Objects) : o \notin Destroyed}

\* the functor of EmptyAllByPredicate as a number: bit o - 1 is set when the
\* functor answers true for object o
RECURSIVE PredicateCode(_)
PredicateCode(Predicate) ==
  IF Predicate = {} THEN 0
  ELSE LET o == CHOOSE x \in Predicate : TRUE
       IN 2 ^ (o - 1) + PredicateCode(Predicate \ {o})
Satisfies(Object, Code) == (Code \div 2 ^ (Object - 1)) % 2 = 1

\* outer code constructs an object (NewObject / SpawnActor) the pool has not seen
DoNewObject(ObjectClass) ==
  /\ BetweenTicks
  /\ hist.External < MaxExternal
  /\ Commit([Start EXCEPT !.Objects = Append(@, ObjectClass),
                          !.hist.Takers = Append(@, 0),
                          !.hist.External = @ + 1],
            Call("NewObject", ObjectClass, 0, Len(Objects) + 1, 0))
  /\ UNCHANGED Due

\* RegisterObjectInPool on an object that exists, as Active or Inactive, with
\* a handle of the caller (FPoolObjectHandle::NewHandle) or without one
DoRegisterExisting(Object, bIsActive, bWithHandle) ==
  /\ BetweenTicks
  /\ Len(Handles) < MaxHandles
  /\ Bind(IF bWithHandle THEN NewHandle(Start, Objects[Object]) ELSE Ret(Start, EmptyHandle),
          LAMBDA S1 :
       Bind(RegisterObjectInPool(S1, [bIsActive |-> bIsActive, PoolObject |-> Object,
                                      Handle |-> S1.ret]), LAMBDA S :
         Commit(S, CallCb("RegisterObjectInPool", Objects[Object], S1.ret.Hash, Object,
                          BoolCode(S.ret), IF bIsActive THEN Active ELSE Inactive))))
  /\ UNCHANGED Due

\* UPoolFactory_UObject::DequeueSpawnRequestByHandle called on factory f
DoDequeueSpawnRequestByHandle(f, Hash) ==
  /\ BetweenTicks
  /\ Bind(DequeueSpawnRequestByHandle(Start, f, HandleOf(Start, Hash)), LAMBDA S :
       Commit(S, Call("DequeueSpawnRequestByHandle", f, Hash, 0, BoolCode(S.ret))))
  /\ UNCHANGED Due

DoEmptyPool(ObjectClass) ==
  /\ BetweenTicks
  /\ Commit(EmptyPool(Start, ObjectClass), Call("EmptyPool", ObjectClass, 0, 0, 0))
  /\ UNCHANGED Due

DoEmptyAllByPredicate(Predicate) ==
  /\ BetweenTicks
  /\ Commit(EmptyAllByPredicate(Start, Predicate),
            Call("EmptyAllByPredicate", NoClass, 0, PredicateCode(Predicate), 0))
  /\ UNCHANGED Due

\* the pool store with both factories registered: requests are made for one
\* class, Normal or Critical, with a passive callback; the objects of outer
\* code are of the other class, so that two containers come to exist
OuterClass == {"UObject"}
NextStore ==
  \/ \E c \in OuterClass : DoNewObject(c)
  \/ \E o \in LiveObjects, a \in BOOLEAN, wh \in BOOLEAN : DoRegisterExisting(o, a, wh)
  \/ \E o \in LiveObjects : DoReturnToPoolObject(o)
  \/ \E h \in 1..Len(Handles) : DoReturnToPoolHandle(h)
  \/ \E f \in OneClass, h \in 1..Len(Handles) : DoDequeueSpawnRequestByHandle(f, h)
  \/ \E c \in OneClass, pr \in {Normal, Critical} :
       DoCreateNewObjectInPool(c, pr, Callback("user", 0))
  \/ TickBegin
  \/ \E f \in OneClass : DoOnNextTickProcessSpawn(f)
  \/ \E c \in Classes : DoEmptyPool(c)
  \/ \E P \in SUBSET LiveObjects : DoEmptyAllByPredicate(P)

\* the store is run with the smallest rate of the drain
InitStore == Init /\ SpawnObjectsPerFrame = MinOf(Rates)
SpecStore == InitStore /\ [][NextStore]_vars

(***************************************************************************)
(* The factories: AddFactory, RemoveFactory and the resolution of the      *)
(* factory of a class, with requests for one class. A failed checkf ends   *)
(* the program.                                                            *)
(***************************************************************************)
Alive == call.op # "Fatal"

\* a factory is identified by the class it handles: a factory is added for a
\* class only when an earlier factory of this class has left nothing behind
\* (no request, no timer, no container that points to it)
LeftNothing(ObjectClass) ==
  ObjectClass \in Classes =>
    /\ SpawnQueueInternal[ObjectClass] = <<>>
    /\ Timers[ObjectClass] = 0
    /\ Due[ObjectClass] = 0
    /\ \A p \in 1..Len(PoolsInternal) : PoolsInternal[p].Factory # ObjectClass

\* FindPoolOrAdd(ObjectClass) finds the container or a factory for a new one
Resolvable(ObjectClass) ==
  \/ FindPool(Start, ObjectClass) # 0
  \/ FindPoolFactoryChecked(AllFactoriesInternal, ObjectClass) # NoClass

DoAddFactory(ObjectClass) ==
  /\ BetweenTicks
  /\ ObjectClass \notin AllFactoriesInternal => LeftNothing(ObjectClass)
  /\ Commit(AddFactory(Start, ObjectClass),
            Call("AddFactory", ObjectClass, 0, 0, BoolCode(ObjectClass \notin AllFactoriesInternal)))
  /\ UNCHANGED Due

DoRemoveFactory(ObjectClass) ==
  /\ BetweenTicks
  /\ Commit(RemoveFactory(Start, ObjectClass),
            Call("RemoveFactory", ObjectClass, 0, 0, BoolCode(ObjectClass \in AllFactoriesInternal)))
  /\ UNCHANGED Due

\* FindPoolFactoryChecked called for a class; call.cb is the class whose
\* factory was found
DoFindPoolFactoryChecked(ObjectClass) ==
  /\ BetweenTicks
  /\ FindPoolFactoryChecked(AllFactoriesInternal, ObjectClass) # NoClass
  /\ Commit(Start, CallCb("FindPoolFactoryChecked", ObjectClass, 0, 0, 0,
                          FindPoolFactoryChecked(AllFactoriesInternal, ObjectClass)))
  /\ UNCHANGED Due

\* the checkf of FindPoolFactoryChecked fails: no class of the chain has a factory
DoFatal(ObjectClass) ==
  /\ BetweenTicks
  /\ FindPoolFactoryChecked(AllFactoriesInternal, ObjectClass) = NoClass
  /\ Commit(Start, CallCb("Fatal", ObjectClass, 0, 0, 0, NoClass))
  /\ UNCHANGED Due

InitFactories == Init /\ SpawnObjectsPerFrame = MinOf(Rates)
NextFactories ==
  \/ \E c \in AllClasses : Alive /\ DoAddFactory(c)
  \/ \E c \in AllClasses : Alive /\ DoRemoveFactory(c)
  \/ \E c \in AllClasses : Alive /\ DoFindPoolFactoryChecked(c)
  \/ \E c \in AllClasses : Alive /\ DoFatal(c)
  \/ \E c \in OneClass, pr \in {Normal, Critical} :
       Alive /\ Resolvable(c) /\ DoCreateNewObjectInPool(c, pr, Callback("user", 0))

SpecFactories == InitFactories /\ [][NextFactories]_vars

(***************************************************************************)
(* The spawn queue of one factory: requests of every priority with every   *)
(* callback, cancellation by handle (through the pool manager and directly *)
(* on the factory), ticks and drains. The world keeps ticking: a tick for  *)
(* which a timer is set comes, and a timer that is due fires.              *)
(***************************************************************************)
NextQueue ==
  \/ \E c \in OneClass, pr \in Priorities, cb \in UserCallbacks :
       DoCreateNewObjectInPool(c, pr, cb)
  \/ \E h \in 1..Len(Handles) : DoReturnToPoolHandle(h)
  \/ \E f \in OneClass, h \in 1..Len(Handles) : DoDequeueSpawnRequestByHandle(f, h)
  \/ TickBegin
  \/ \E f \in OneClass : DoOnNextTickProcessSpawn(f)

\* what a tick and a firing timer do to the timers that are due: these are
\* the steps TickBegin and DoOnNextTickProcessSpawn(f), and no other step
\* changes Due in this way
TickComes ==
  /\ BetweenTicks
  /\ \E f \in Classes : Timers[f] > 0
  /\ Due' = Timers
TimerFires(f) ==
  /\ Due[f] > 0
  /\ Due' = [Due EXCEPT ![f] = @ - 1]

TicksOccur ==
  /\ WF_Due(TickComes)
  /\ \A f \in OneClass : WF_Due(TimerFires(f))

SpecQueue == Init /\ [][NextQueue]_vars /\ TicksOccur

(***************************************************************************)
(* One factory for a class and its subclass: the settings list the factory *)
(* of UObject only, which FindPoolFactoryChecked then finds for AActor     *)
(* too. Objects of both classes are requested, taken and returned.         *)
(***************************************************************************)
BaseFactory == {"UObject"}
NextExact ==
  \/ \E c \in Classes, pr \in {Normal, Critical} :
       DoCreateNewObjectInPool(c, pr, Callback("user", 0))
  \/ \E c \in Classes : DoTakeFromPoolOrNull(c)
  \/ \E c \in Classes : DoTakeFromPool(c, Callback("user", 0))
  \/ \E o \in 1..Len(Objects) : DoReturnToPoolObject(o)
  \/ TickBegin
  \/ \E f \in BaseFactory : DoOnNextTickProcessSpawn(f)

InitExact == InitOf(BaseFactory, {MinOf(Rates)})
SpecExact == InitExact /\ [][NextExact]_vars

(***************************************************************************)
(* The drain under a setting that is not valid: SpawnObjectsPerFrame is    *)
(* below 1, or 1 for comparison. Requests of every queued priority, with   *)
(* cancellation by handle.                                                 *)
(***************************************************************************)
NextClamp ==
  \/ \E c \in OneClass, pr \in {Normal, Medium, High} :
       DoCreateNewObjectInPool(c, pr, Callback("user", 0))
  \/ \E h \in 1..Len(Handles) : DoReturnToPoolHandle(h)
  \/ TickBegin
  \/ \E f \in OneClass : DoOnNextTickProcessSpawn(f)

InitClamp == InitOf(Factories, InvalidRates \cup {MinOf(Rates)})
SpecClamp == InitClamp /\ [][NextClamp]_vars

(***************************************************************************)
(* The fatal check of FindPoolOrAdd. Factories come and go while callers   *)
(* take objects and register their own; a call for a class without a       *)
(* container, no class of whose ancestor chain has a factory, runs into    *)
(* the checkf of FindPoolFactoryChecked, which ends the program: the state *)
(* of such a step is the memory as the call leaves it at the check.        *)
(***************************************************************************)
\* TakeFromPool: CreateNewObjectInPool has generated the handle and
\* FindPoolOrAdd has added the container when the check fails
DoTakeFromPoolFatal(ObjectClass) ==
  /\ BetweenTicks
  /\ Len(Handles) < MaxHandles
  /\ ~Resolvable(ObjectClass)
  /\ Bind(NewHandle(Start, ObjectClass), LAMBDA S1 :
       Commit(FindPoolOrAdd(S1, ObjectClass),
              CallCb("Fatal", ObjectClass, S1.ret.Hash, 0, 0, NoClass)))
  /\ UNCHANGED Due

\* RegisterObjectInPool of an object outer code created: FindPoolOrAdd has
\* added the container when the check fails
DoRegisterObjectInPoolFatal(ObjectClass) ==
  /\ BetweenTicks
  /\ hist.External < MaxExternal
  /\ ~Resolvable(ObjectClass)
  /\ LET Object == Len(Objects) + 1
         S1 == [Start EXCEPT !.Objects = Append(@, ObjectClass),
                             !.hist.Takers = Append(@, 0),
                             !.hist.External = @ + 1]
     IN Commit(FindPoolOrAdd(S1, ObjectClass),
               CallCb("Fatal", ObjectClass, 0, Object, 0, NoClass))
  /\ UNCHANGED Due

NextChecked ==
  \/ \E c \in Classes : Alive /\ DoAddFactory(c)
  \/ \E c \in Classes : Alive /\ DoRemoveFactory(c)
  \/ \E c \in Classes : Alive /\ Resolvable(c) /\ DoTakeFromPool(c, Callback("user", 0))
  \/ \E c \in Classes, a \in BOOLEAN :
       Alive /\ Resolvable(c) /\ DoRegisterObjectInPool(c, a)
  \/ \E c \in Classes : Alive /\ DoTakeFromPoolFatal(c)
  \/ \E c \in Classes : Alive /\ DoRegisterObjectInPoolFatal(c)
  \/ \E o \in 1..Len(Objects) : Alive /\ DoReturnToPoolObject(o)
  \/ Alive /\ TickBegin
  \/ \E f \in Classes : Alive /\ DoOnNextTickProcessSpawn(f)

SpecChecked == InitFactories /\ [][NextChecked]_vars

(***************************************************************************)
(* The containers. Both factories are registered; outer code creates       *)
(* objects of one class and registers or returns them, requests are made   *)
(* for the other class, and the pools are emptied one by one, by a         *)
(* predicate, or all at once.                                              *)
(***************************************************************************)
DoEmptyAllPools ==
  /\ BetweenTicks
  /\ Commit(EmptyAllPools(Start), Call("EmptyAllPools", NoClass, 0, 0, 0))
  /\ UNCHANGED Due

NextReset ==
  \/ \E c \in OuterClass : DoNewObject(c)
  \/ \E o \in LiveObjects, a \in BOOLEAN : DoRegisterExisting(o, a, FALSE)
  \/ \E o \in LiveObjects : DoReturnToPoolObject(o)
  \/ \E h \in 1..Len(Handles) : DoReturnToPoolHandle(h)
  \/ \E c \in Classes : DoTakeFromPoolOrNull(c)
  \/ \E c \in OneClass, pr \in {Normal, Critical} :
       DoCreateNewObjectInPool(c, pr, Callback("user", 0))
  \/ TickBegin
  \/ \E f \in OneClass : DoOnNextTickProcessSpawn(f)
  \/ \E c \in Classes : DoEmptyPool(c)
  \/ \E P \in SUBSET LiveObjects : DoEmptyAllByPredicate(P)
  \/ DoEmptyAllPools

SpecReset == InitStore /\ [][NextReset]_vars

(***************************************************************************)
(* The lookups by handle and by object. Outer code registers its object    *)
(* without a handle, with a handle it generates for the object's class, or *)
(* with a handle it holds from an earlier call; requests are created,      *)
(* spawned and returned meanwhile.                                         *)
(***************************************************************************)
\* RegisterObjectInPool with FPoolObjectData::Handle set to a handle the
\* caller holds
DoRegisterHeld(Object, bIsActive, Hash) ==
  /\ BetweenTicks
  /\ Bind(RegisterObjectInPool(Start, [bIsActive |-> bIsActive, PoolObject |-> Object,
                                       Handle |-> HandleOf(Start, Hash)]), LAMBDA S :
       Commit(S, CallCb("RegisterObjectInPool", Objects[Object], Hash, Object,
                        BoolCode(S.ret), IF bIsActive THEN Active ELSE Inactive)))
  /\ UNCHANGED Due

NextLookup ==
  \/ \E c \in Classes : DoNewObject(c)
  \/ \E o \in LiveObjects, wh \in BOOLEAN : DoRegisterExisting(o, FALSE, wh)
  \/ \E o \in LiveObjects, h \in 1..Len(Handles) : DoRegisterHeld(o, TRUE, h)
  \/ \E c \in OneClass, pr \in {Normal, Critical} :
       DoCreateNewObjectInPool(c, pr, Callback("user", 0))
  \/ \E h \in 1..Len(Handles) : DoReturnToPoolHandle(h)
  \/ TickBegin
  \/ \E f \in OneClass : DoOnNextTickProcessSpawn(f)

SpecLookup == InitStore /\ [][NextLookup]_vars

(***************************************************************************)
(* Returns. Objects of one class are registered, taken and returned, by    *)
(* object and by handle; ReturnToPool is also called for objects that are  *)
(* in the pool and Inactive.                                               *)
(***************************************************************************)
\* ReturnToPool(Object) called for an object that is Inactive in the pool
DoReturnToPoolInactive(Object) ==
  /\ BetweenTicks
  /\ GetPoolObjectState(Start, Object) = Inactive
  /\ Bind(ReturnToPoolObject(Start, Object), LAMBDA S :
       Commit(S, CallCb("ReturnToPool", NoClass, 0, Object, BoolCode(S.ret), Inactive)))
  /\ UNCHANGED Due

NextReturn ==
  \/ \E c \in OneClass, a \in BOOLEAN : DoRegisterObjectInPool(c, a)
  \/ \E c \in OneClass : DoTakeFromPool(c, Callback("user", 0))
  \/ \E c \in OneClass : DoTakeFromPoolOrNull(c)
  \/ \E o \in 1..Len(Objects) : DoReturnToPoolObject(o)
  \/ \E o \in 1..Len(Objects) : DoReturnToPoolInactive(o)
  \/ \E h \in 1..Len(Handles) : DoReturnToPoolHandle(h)
  \/ TickBegin
  \/ \E f \in OneClass : DoOnNextTickProcessSpawn(f)

SpecReturn == Init /\ [][NextReturn]_vars

(***************************************************************************)
(* Definitions used by the properties                                      *)
(***************************************************************************)
\* the position of a hash in a queue (0: not queued)
PosIn(Queue, Hash) ==
  LET Found == {k \in 1..Len(Queue) : Queue[k].Handle.Hash = Hash}
  IN IF Found = {} THEN 0 ELSE MinOf(Found)
\* the pool entry a hash resolves to (EmptyObject: none)
Resolve(Hash) == FindPoolObjectByHandle(Start, HandleOf(Start, Hash))
\* the same after the step
ResolveNext(Hash) == FindPoolObjectByHandle(Start', HandleOf(Start', Hash))
\* the events of the last operation with a given name
EventsNamed(e) == {k \in 1..Len(trace) : trace[k].e = e}

(***************************************************************************)
(* C1. A run of K > N Normal requests that starts on an empty queue, with  *)
(* nothing else submitted or cancelled: after t ticks exactly the first    *)
(* min(K, N*t) requests of the run have been spawned (so N in the first    *)
(* tick, all of them after ceil(K/N) ticks and not before), and they are   *)
(* spawned in submission order.                                            *)
(***************************************************************************)
C1_BurstDrainsAtRate ==
  \A f \in Classes :
    LET b == hist.burst[f]
        K == Len(b.hs)
        N == ObjectsPerFrame
        Expected == IF N * b.ticks < K THEN N * b.ticks ELSE K
    IN (b.clean /\ K > N /\ BetweenTicks) =>
         /\ \A k \in 1..K : (b.hs[k] \in hist.Materialized) <=> (k <= Expected)
         /\ \A j, k \in 1..Expected :
              j < k => Resolve(b.hs[j]).PoolObject < Resolve(b.hs[k]).PoolObject

(***************************************************************************)
(* C2. Whenever the callback of a batch is invoked, every handle of the    *)
(* batch resolves to a live pool entry, and no batch callback is invoked   *)
(* twice.                                                                  *)
(***************************************************************************)
C2_BatchCompletesOnceWhenAllResolve ==
  /\ \A k \in EventsNamed("BatchCompleted") :
       trace[k].o # 0 => trace[k].x = Len(Batches[trace[k].o].OutAllHandles)
  /\ \A b \in 1..Len(Batches) : Batches[b].Fired <= 1

(***************************************************************************)
(* C7. In one tick a factory spawns at most N of its queued requests.      *)
(***************************************************************************)
C7_AtMostRatePerTick ==
  \A f \in Classes : hist.Spawned[f] <= ObjectsPerFrame

(***************************************************************************)
(* C3. When ReturnToPool(Handle) is called with the handle of a request    *)
(* that waits in a queue (a take that missed, not yet spawned), the call   *)
(* succeeds and the request has left the queue; such a handle is in no     *)
(* queue afterwards and no object is ever spawned for it.                  *)
(***************************************************************************)
C3_ReturnedPending ==
  /\ call'.op = "ReturnToPoolHandle"
  /\ call'.hash \in Pending
C3_CancelledNeverSpawned ==
  /\ [](\A h \in hist.Returned : h \notin hist.Materialized /\ h \notin Pending)
  /\ [][C3_ReturnedPending => (call'.res = 1 /\ call'.hash \notin Pending')]_vars
\* a later tick has spawned a younger request while the returned one stays out
C3_Witness ==
  /\ call.op = "OnNextTickProcessSpawn"
  /\ \E h \in hist.Returned : \E g \in hist.Materialized : g > h

(***************************************************************************)
(* C4. TakeFromPoolOrNull selects only an entry that is free when it is    *)
(* called, so no object is held by two takers at once: an Active object is *)
(* handed out again only after it was returned.                            *)
(***************************************************************************)
C4_SelectedWasFree ==
  (call'.op \in {"TakeFromPoolOrNull", "TakeFromPool"} /\ call'.obj # NullObject) =>
     \E p \in 1..Len(PoolsInternal) :
       \E i \in 1..Len(PoolsInternal[p].PoolObjects) :
         /\ PoolsInternal[p].PoolObjects[i].PoolObject = call'.obj
         /\ ~PoolsInternal[p].PoolObjects[i].bIsActive
         /\ PoolsInternal[p].PoolObjects[i].Handle.Hash = call'.hash
C4_OnlyFreeEntriesTaken ==
  /\ [](\A o \in 1..Len(Objects) : hist.Takers[o] <= 1)
  /\ [][C4_SelectedWasFree]_vars
\* an entry is handed out while another entry of the pool is held
C4_Witness ==
  /\ call.op = "TakeFromPoolOrNull"
  /\ call.obj # NullObject
  /\ \E o \in 1..Len(Objects) : o # call.obj /\ hist.Takers[o] = 1

(***************************************************************************)
(* C5. A queue is ordered by priority, highest first, and by submission    *)
(* inside a priority; requests leave it from the front, so of two waiting  *)
(* requests the one that is ahead is spawned first. A High or Medium       *)
(* request is inserted behind every request of its priority or higher and  *)
(* ahead of every request of lower priority.                               *)
(***************************************************************************)
C5_QueueOrdered(Queue) ==
  \A j, k \in 1..Len(Queue) :
    j < k => \/ Queue[j].Priority > Queue[k].Priority
             \/ /\ Queue[j].Priority = Queue[k].Priority
                /\ Queue[j].Handle.Hash < Queue[k].Handle.Hash
C5_FrontFirst(f) ==
  LET Queue == SpawnQueueInternal[f]
  IN \A j, k \in 1..Len(Queue) :
       LET a == Queue[j].Handle.Hash
           b == Queue[k].Handle.Hash
       IN j < k =>
            /\ b \in hist'.Materialized =>
                 \/ a \in hist'.Cancelled
                 \/ /\ a \in hist'.Materialized
                    /\ ResolveNext(a).PoolObject < ResolveNext(b).PoolObject
            /\ (a \in QueuedIn(SpawnQueueInternal'[f]) /\ b \in QueuedIn(SpawnQueueInternal'[f]))
                 => PosIn(SpawnQueueInternal'[f], a) < PosIn(SpawnQueueInternal'[f], b)
C5_InsertedByPriority(f) ==
  LET Queue == SpawnQueueInternal'[f]
      At == PosIn(Queue, call'.hash)
  IN (/\ call'.op = "CreateNewObjectInPool"
      /\ call'.res \in {Medium, High}
      /\ call'.hash \notin QueuedIn(SpawnQueueInternal[f])
      /\ At # 0) =>
       \A k \in 1..Len(Queue) :
         /\ k < At => Queue[k].Priority >= call'.res
         /\ k > At => Queue[k].Priority < call'.res
C5_PriorityThenFifo ==
  /\ [](\A f \in Classes : C5_QueueOrdered(SpawnQueueInternal[f]))
  /\ [][\A f \in Classes : C5_FrontFirst(f) /\ C5_InsertedByPriority(f)]_vars
\* a High request went in between a High and a Normal request that waited
C5_Witness ==
  /\ call.op = "CreateNewObjectInPool"
  /\ call.res = High
  /\ \E f \in Classes :
       LET Queue == SpawnQueueInternal[f]
       IN /\ Len(Queue) = 3
          /\ Queue[1].Priority = High
          /\ Queue[2].Handle.Hash = call.hash
          /\ Queue[3].Priority = Normal

(***************************************************************************)
(* C6. A Critical request is completed inside the call that submits it:    *)
(* the object is spawned, registered and reported to the callback, in this *)
(* order, before the call returns; its handle resolves to a live entry,    *)
(* and with a passive callback the queue, the timers and the number of     *)
(* queued requests spawned in the tick are as before.                      *)
(***************************************************************************)
C6_CriticalCall ==
  /\ call'.op = "CreateNewObjectInPool"
  /\ call'.res = Critical
C6_CompletedInline ==
  LET t == trace'
      h == call'.hash
  IN /\ \E i, j, k \in 1..Len(t) :
          /\ i < j /\ j < k
          /\ t[i].e = "SpawnNow" /\ t[i].h = h
          /\ t[j].e = "OnPreRegistered" /\ t[j].h = h /\ t[j].o = t[i].o
          /\ t[k].e = "Completed" /\ t[k].h = h /\ t[k].o = t[i].o
          /\ ResolveNext(h).PoolObject = t[i].o
     /\ h \in hist'.Materialized
     /\ h \notin Pending'
     /\ call'.cb = "user" =>
          /\ SpawnQueueInternal' = SpawnQueueInternal
          /\ Timers' = Timers
          /\ hist'.Spawned = hist.Spawned
C6_CriticalIsSynchronous == [][C6_CriticalCall => C6_CompletedInline]_vars
\* a Critical request was completed while other requests wait in the queue
C6_Witness ==
  /\ call.op = "CreateNewObjectInPool"
  /\ call.res = Critical
  /\ call.hash \in hist.Materialized
  /\ \E f \in Classes : Len(SpawnQueueInternal[f]) >= 2

(***************************************************************************)
(* C8 as stated. After TakeFromPool(T), ReturnToPool with the handle that  *)
(* TakeFromPool returned, and TakeFromPoolOrNull(T), called one after the  *)
(* other, TakeFromPoolOrNull has returned an object, the one the handle    *)
(* stands for, Active, and no object was constructed since the take.       *)
(***************************************************************************)
C8_RoundTripAlwaysSameObject ==
  hist.rt.stage = 3 =>
    /\ call.obj # NullObject
    /\ Resolve(hist.rt.hash).PoolObject = call.obj
    /\ GetPoolObjectState(Start, call.obj) = Active
    /\ Len(Objects) = hist.rt.objs

(***************************************************************************)
(* C8 amended. The same three calls, one after the other: when the take    *)
(* found a free entry, the return succeeds and TakeFromPoolOrNull returns  *)
(* that entry's object, under the same handle, Active, with no object      *)
(* constructed; when the take missed, the return cancels the request,      *)
(* TakeFromPoolOrNull returns null and no object exists for the handle.    *)
(***************************************************************************)
C8_RoundTripOfHit ==
  hist.rt.stage = 3 =>
    /\ hist.rt.res = 1
    /\ Len(Objects) = hist.rt.objs
    /\ hist.rt.obj # NullObject =>
         /\ call.obj = hist.rt.obj
         /\ call.hash = hist.rt.hash
         /\ GetPoolObjectState(Start, call.obj) = Active
    /\ hist.rt.obj = NullObject =>
         /\ call.obj = NullObject
         /\ hist.rt.hash \notin hist.Materialized
         /\ ~DataIsValid(Resolve(hist.rt.hash))
\* the round trip of a take that hit, in a pool that holds another entry too
C8_Witness ==
  /\ hist.rt.stage = 3
  /\ hist.rt.obj # NullObject
  /\ call.obj = hist.rt.obj
  /\ \E p \in 1..Len(PoolsInternal) : Len(PoolsInternal[p].PoolObjects) >= 2

(***************************************************************************)
(* The state changes of object o in one step: the states the hook          *)
(* OnChangedStateInPool reported for it, after the state it had before.    *)
(***************************************************************************)
StateChanges(o) ==
  LET Before == IF o <= Len(Objects) THEN GetPoolObjectState(Start, o) ELSE None
      At == SelectSeq([k \in 1..Len(trace') |-> k],
                      LAMBDA k : trace'[k].e = "OnChangedStateInPool" /\ trace'[k].o = o)
  IN [k \in 1..Len(At) |->
        [at |-> At[k],
         from |-> IF k = 1 THEN Before
                  ELSE IF trace'[At[k - 1]].x = 1 THEN Active ELSE Inactive,
         to |-> IF trace'[At[k]].x = 1 THEN Active ELSE Inactive]]
\* the reported changes are the changes of the entry
StateChangesReported(o) ==
  LET cs == StateChanges(o)
      Before == IF o <= Len(Objects) THEN GetPoolObjectState(Start, o) ELSE None
  IN GetPoolObjectState(Start', o) = IF Len(cs) = 0 THEN Before ELSE cs[Len(cs)].to
\* the hook invoked just before the change c of object o
HookBefore(o, c, e) ==
  /\ c.at > 1
  /\ trace'[c.at - 1].e = e
  /\ trace'[c.at - 1].o = o
TakenOrReturned(o, c) ==
  /\ (c.from = Inactive /\ c.to = Active) => HookBefore(o, c, "OnTakeFromPool")
  /\ (c.from = Active /\ c.to = Inactive) => HookBefore(o, c, "OnReturnToPool")

(***************************************************************************)
(* C9 as stated. An object enters the pool as Inactive, becomes Active     *)
(* only through a take and Inactive again only through a return; its state *)
(* changes in no other way.                                                *)
(***************************************************************************)
C9_StepEntersInactive ==
  \A o \in 1..Len(Objects') :
    /\ StateChangesReported(o)
    /\ \A k \in 1..Len(StateChanges(o)) :
         LET c == StateChanges(o)[k]
         IN /\ c.from = None => c.to = Inactive
            /\ TakenOrReturned(o, c)
C9_EntersInactive == [][C9_StepEntersInactive]_vars

(***************************************************************************)
(* C9 amended. An object enters the pool in the state its registration     *)
(* carries: Active when a spawn request completes, Active or Inactive as   *)
(* the caller of RegisterObjectInPool says. A registered object never      *)
(* leaves the pool; it becomes Active from Inactive only through a take    *)
(* and Inactive from Active only through a return.                         *)
(***************************************************************************)
C9_StepStateMachine ==
  \A o \in 1..Len(Objects') :
    /\ StateChangesReported(o)
    /\ \A k \in 1..Len(StateChanges(o)) :
         LET c == StateChanges(o)[k]
         IN /\ c.from = None =>
                 \/ HookBefore(o, c, "OnPreRegistered") /\ c.to = Active
                 \/ call'.op = "RegisterObjectInPool" /\ call'.obj = o /\ c.at = 1
            /\ TakenOrReturned(o, c)
C9_StateMachine == [][C9_StepStateMachine]_vars
\* an object spawned for a request was returned and then taken again
C9_Witness ==
  /\ call.op \in {"TakeFromPool", "TakeFromPoolOrNull"}
  /\ call.obj # NullObject
  /\ call.hash \in hist.Materialized
  /\ GetPoolObjectState(Start, call.obj) = Active

(***************************************************************************)
(* C10. When TakeFromPool(T) is called while the pool of T holds a free    *)
(* entry, the callback is invoked inside the call with that entry, now     *)
(* Active, and the handle returned is the one the entry had; with a        *)
(* passive callback nothing is queued, no timer is set, no object or       *)
(* handle is created and the pools keep their numbers of entries.          *)
(***************************************************************************)
C10_TakeWithFreeEntry ==
  /\ call'.op = "TakeFromPool"
  /\ HasFree(call'.class)
C10_HitEffects ==
  LET t == trace'
  IN /\ call'.res = 1
     /\ call'.obj # NullObject
     /\ GetPoolObjectState(Start, call'.obj) = Inactive
     /\ Resolve(call'.hash).PoolObject = call'.obj
     /\ \E k \in 1..Len(t) :
          /\ t[k].e = "Completed" /\ t[k].o = call'.obj /\ t[k].h = call'.hash
          /\ \E j \in 1..(k - 1) :
               t[j].e = "OnChangedStateInPool" /\ t[j].o = call'.obj /\ t[j].x = 1
     /\ call'.cb = "user" =>
          /\ GetPoolObjectState(Start', call'.obj) = Active
          /\ SpawnQueueInternal' = SpawnQueueInternal
          /\ Timers' = Timers
          /\ Objects' = Objects
          /\ Handles' = Handles
          /\ hist'.Materialized = hist.Materialized
          /\ Len(PoolsInternal') = Len(PoolsInternal)
          /\ \A p \in 1..Len(PoolsInternal) :
               Len(PoolsInternal'[p].PoolObjects) = Len(PoolsInternal[p].PoolObjects)
C10_TakeHitIsSynchronous == [][C10_TakeWithFreeEntry => C10_HitEffects]_vars
\* a take was served from the pool while a request waits in the queue
C10_Witness ==
  /\ call.op = "TakeFromPool"
  /\ call.res = 1
  /\ call.cb = "user"
  /\ Len(trace) >= 3
  /\ trace[Len(trace)].e = "Completed"
  /\ \E f \in Classes : Len(SpawnQueueInternal[f]) >= 1

(***************************************************************************)
(* The calls of TakeFromPool and TakeFromPoolArray in one step: the hooks  *)
(* OnTakeFromPool count the requests served from the pool, the handles     *)
(* generated count the requests that missed.                               *)
(***************************************************************************)
EventsNamedNext(e) == {k \in 1..Len(trace') : trace'[k].e = e}
NewHashes == (Len(Handles) + 1)..Len(Handles')
C11_TakeCall == call'.op \in {"TakeFromPool", "TakeFromPoolArray"}
C11_ReturnsValidHandles ==
  /\ call'.op = "TakeFromPool" =>
       /\ call'.hash \in 1..Len(Handles')
       /\ Handles'[call'.hash] = call'.class
  /\ call'.op = "TakeFromPoolArray" =>
       call'.res = Cardinality(EventsNamedNext("OnTakeFromPool")) + Cardinality(NewHashes)

(***************************************************************************)
(* C11 as stated. TakeFromPool and TakeFromPoolArray return valid handles  *)
(* and never invoke the completion callback inside the call.               *)
(***************************************************************************)
C11_StepNeverInsideTheCall ==
  C11_TakeCall =>
    /\ C11_ReturnsValidHandles
    /\ EventsNamedNext("Completed") = {}
    /\ EventsNamedNext("BatchCompleted") = {}
C11_MissDeferred ==
  /\ (call'.op = "TakeFromPool" /\ call'.res = 0) =>
       /\ trace' = <<>>
       /\ call'.hash \in NewHashes
       /\ call'.hash \in QueuedIn(SpawnQueueInternal'[call'.class])
       /\ Timers'[call'.class] > 0
       /\ hist'.Materialized = hist.Materialized
       /\ Objects' = Objects
  /\ (call'.op = "TakeFromPoolArray" /\ NewHashes # {}) =>
       /\ EventsNamedNext("BatchCompleted") = {}
       /\ EventsNamedNext("Completed") = {}
       /\ \A h \in NewHashes : h \in Pending'
       /\ hist'.Materialized = hist.Materialized
       /\ Objects' = Objects
C11_HitInline ==
  /\ (call'.op = "TakeFromPool" /\ call'.res = 1) =>
       \E k \in EventsNamedNext("Completed") : trace'[k].h = call'.hash
  /\ (call'.op = "TakeFromPoolArray" /\ NewHashes = {}) =>
       \E k \in EventsNamedNext("BatchCompleted") : trace'[k].x = call'.res
C11_DrainCompletes ==
  \A h \in Pending :
    h \in hist'.Materialized =>
      /\ call'.op = "OnNextTickProcessSpawn"
      /\ \E k \in EventsNamedNext("SpawnNow") : trace'[k].h = h
C11_StepMissIsAsynchronous ==
  /\ C11_TakeCall => (C11_ReturnsValidHandles /\ C11_MissDeferred /\ C11_HitInline)
  /\ C11_DrainCompletes
Registered(o) ==
  \E p \in 1..Len(PoolsInternal) :
    \E i \in 1..Len(PoolsInternal[p].PoolObjects) :
      PoolsInternal[p].PoolObjects[i].PoolObject = o

(***************************************************************************)
(* C12. ReturnToPool(Object) called with an object that is in no container *)
(* returns false.                                                          *)
(***************************************************************************)
C12_ReturnOfUnknownObject ==
  /\ call'.op = "ReturnToPool"
  /\ ~Registered(call'.obj)
C12_UnknownObjectFails == [][C12_ReturnOfUnknownObject => call'.res = 0]_vars

\* the entries (container p, index i) that carry hash h
EntriesOf(h) ==
  {pi \in UNION {{<<p, i>> : i \in 1..Len(PoolsInternal[p].PoolObjects)} :
                   p \in 1..Len(PoolsInternal)} :
     PoolsInternal[pi[1]].PoolObjects[pi[2]].Handle.Hash = h}
\* a queue without the request of hash h
WithoutHash(Queue, h) == SelectSeq(Queue, LAMBDA r : r.Handle.Hash # h)

(***************************************************************************)
(* C13. ReturnToPool(Handle) returns false exactly when the handle is the  *)
(* handle of no pool entry and of no request that waits in a queue. When   *)
(* it is the handle of an entry, the entry is Inactive afterwards (same    *)
(* object, same handle) and the call returns true; when it is the handle   *)
(* of a waiting request, the request has left its queue, the other         *)
(* requests keep their order, and the call returns true.                   *)
(***************************************************************************)
C13_StepReturnByHandle ==
  call'.op = "ReturnToPoolHandle" =>
    LET h == call'.hash
    IN /\ (call'.res = 0) <=> (EntriesOf(h) = {} /\ h \notin Pending)
       /\ \A pi \in EntriesOf(h) :
            /\ call'.res = 1
            /\ PoolsInternal'[pi[1]].PoolObjects[pi[2]] =
                 [PoolsInternal[pi[1]].PoolObjects[pi[2]] EXCEPT !.bIsActive = FALSE]
       /\ h \in Pending =>
            /\ call'.res = 1
            /\ h \notin Pending'
            /\ \A f \in Classes :
                 SpawnQueueInternal'[f] = WithoutHash(SpawnQueueInternal[f], h)
C14_RecoverableFailure ==
  \/ call'.op = "ReturnToPool" /\ ~Registered(call'.obj)
  \/ call'.op = "ReturnToPoolHandle" /\ EntriesOf(call'.hash) = {} /\ call'.hash \notin Pending
  \/ call'.op = "RegisterObjectInPool" /\ Registered(call'.obj)
  \/ /\ call'.op = "DequeueSpawnRequestByHandle"
     /\ call'.hash \notin QueuedIn(SpawnQueueInternal[call'.class])
C14_NothingChanged ==
  /\ PoolsInternal' = PoolsInternal
  /\ SpawnQueueInternal' = SpawnQueueInternal
  /\ trace' = <<>>
C14_NoMutationOnFailure == [][C14_RecoverableFailure => C14_NothingChanged]_vars

\* the entries (container p, index i) of object o after the step
EntriesOfObjectNext(o) ==
  {pi \in UNION {{<<p, i>> : i \in 1..Len(PoolsInternal'[p].PoolObjects)} :
                   p \in 1..Len(PoolsInternal')} :
     PoolsInternal'[pi[1]].PoolObjects[pi[2]].PoolObject = o}
\* the containers after the step without the last entry of container p
WithoutLastEntryNext(p) ==
  [PoolsInternal' EXCEPT ![p].PoolObjects = SubSeq(@, 1, Len(@) - 1)]

(***************************************************************************)
(* C15. RegisterObjectInPool on an object that is in no container returns  *)
(* true and adds one entry for it, at the end of the container of the      *)
(* object's class (created when missing), in the state the caller asked    *)
(* for and under the caller's handle, or under a handle generated for the  *)
(* object's class when the caller gave none; every other entry is as       *)
(* before. On an object that is registered it returns false and the        *)
(* containers are as before: no second entry, the same state, the same     *)
(* handle.                                                                 *)
(***************************************************************************)
C15_RegisterCall ==
  /\ call'.op = "RegisterObjectInPool"
  /\ call'.cb \in {Active, Inactive}
C15_Added ==
  /\ call'.res = 1
  /\ Cardinality(EntriesOfObjectNext(call'.obj)) = 1
  /\ \A pi \in EntriesOfObjectNext(call'.obj) :
       LET Pool == PoolsInternal'[pi[1]]
           Data == Pool.PoolObjects[pi[2]]
       IN /\ Pool.ObjectClass = Objects[call'.obj]
          /\ pi[2] = Len(Pool.PoolObjects)
          /\ GetState(Data) = call'.cb
          /\ HandleIsValid(Data.Handle)
          /\ Data.Handle.ObjectClass = Objects[call'.obj]
          /\ Data.Handle.Hash = Len(Handles) + 1
          /\ Len(Handles') = Len(Handles) + 1
          /\ call'.hash # 0 => Data.Handle.Hash = call'.hash
          /\ Data.Handle.Hash \notin Pending
          /\ EntriesOf(Data.Handle.Hash) = {}
          /\ WithoutLastEntryNext(pi[1]) =
               IF pi[1] <= Len(PoolsInternal) THEN PoolsInternal
               ELSE Append(PoolsInternal,
                           [ObjectClass |-> Objects[call'.obj],
                            Factory |-> Pool.Factory, PoolObjects |-> <<>>])
C15_Refused ==
  /\ call'.res = 0
  /\ PoolsInternal' = PoolsInternal
  /\ trace' = <<>>
C15_StepRegister ==
  C15_RegisterCall => IF Registered(call'.obj) THEN C15_Refused ELSE C15_Added
C15_RegisterExisting == [][C15_StepRegister]_vars
\* a registered object was offered again, in the other state and with a handle
\* of the caller, and was refused
C15_Witness ==
  /\ call.op = "RegisterObjectInPool"
  /\ call.res = 0
  /\ call.hash # 0
  /\ call.cb \in {Active, Inactive}
  /\ GetPoolObjectState(Start, call.obj) \notin {None, call.cb}

\* the classes from a class up to the root, and the closest of them that has
\* a factory (NoClass: none has)
RECURSIVE AncestorChain(_)
AncestorChain(Class) ==
  IF Class = NoClass THEN <<>> ELSE <<Class>> \o AncestorChain(SuperClass(Class))
Nearest(WithFactory, Class) ==
  LET Chain == AncestorChain(Class)
      With == {k \in 1..Len(Chain) : Chain[k] \in WithFactory}
  IN IF With = {} THEN NoClass
     ELSE Chain[CHOOSE k \in With : \A j \in With : k <= j]

(***************************************************************************)
(* C16. For every class and every set of registered factories,             *)
(* FindPoolFactoryChecked finds the factory of the closest class on the    *)
(* class's ancestor chain (the class itself first) that has a factory: a   *)
(* class without a factory of its own resolves to the factory of its       *)
(* closest ancestor, a factory registered for the class itself wins, and   *)
(* the check fails only when no class of the chain has a factory.          *)
(***************************************************************************)
C16_ResolvesNearest ==
  /\ \A c \in AllClasses :
       FindPoolFactoryChecked(AllFactoriesInternal, c) = Nearest(AllFactoriesInternal, c)
  /\ call.op = "FindPoolFactoryChecked" =>
       /\ call.cb = Nearest(AllFactoriesInternal, call.class)
       /\ call.class \in AllFactoriesInternal => call.cb = call.class
  /\ (call.op = "Fatal") <=>
       (call.op # "Init" /\ \A k \in 1..Len(AncestorChain(call.class)) :
                               AncestorChain(call.class)[k] \notin AllFactoriesInternal
                          /\ call.cb = NoClass)
\* APawn, which has no factory, resolved to the factory of AActor although
\* UObject has a factory as well
C16_Witness ==
  /\ call.op = "FindPoolFactoryChecked"
  /\ call.class = "APawn"
  /\ call.cb = "AActor"
  /\ "APawn" \notin AllFactoriesInternal
  /\ "UObject" \in AllFactoriesInternal

(***************************************************************************)
(* C17. Once RemoveFactory has taken a factory out of the map, the factory *)
(* receives no request and constructs no object; a spawn request for a     *)
(* class it served, also a class whose container existed before, goes to   *)
(* the factory of the closest ancestor that is still registered (or the    *)
(* program ends when there is none).                                       *)
(***************************************************************************)
C17_StepFallsBack ==
  call'.op = "CreateNewObjectInPool" =>
    LET f == Nearest(AllFactoriesInternal, call'.class)
    IN /\ f # NoClass
       /\ hist'.Stale = {}
       /\ call'.res = Normal => call'.hash \in QueuedIn(SpawnQueueInternal'[f])
C17_RemovedFactoryNeverUsed == [][C17_StepFallsBack]_vars

\* the Destroy calls of the step for object o
DestroyCallsNext(o) == {k \in 1..Len(trace') : trace'[k].e = "Destroy" /\ trace'[k].o = o}

(***************************************************************************)
(* C18. EmptyPool(T), called while T has a container: Destroy is called    *)
(* exactly once on every object of T's container and on no other object;   *)
(* afterwards the container has no registered and no free entry, every     *)
(* handle that an entry of it carried resolves to the empty entry and is   *)
(* refused by ReturnToPool(Handle); the other containers and the queues    *)
(* are as before.                                                          *)
(***************************************************************************)
C18_StepEmptyPool ==
  (call'.op = "EmptyPool" /\ FindPool(Start, call'.class) # 0) =>
    LET p == FindPool(Start, call'.class)
        Entries == PoolsInternal[p].PoolObjects
        Pooled == {Entries[i].PoolObject : i \in 1..Len(Entries)}
    IN /\ \A o \in 1..Len(Objects) :
            Cardinality(DestroyCallsNext(o)) = IF o \in Pooled THEN 1 ELSE 0
       /\ Destroyed' = Destroyed \cup Pooled
       /\ GetRegisteredObjectsNum(Start', call'.class) = 0
       /\ GetFreeObjectsNum(Start', call'.class) = 0
       /\ PoolsInternal' = [PoolsInternal EXCEPT ![p].PoolObjects = <<>>]
       /\ SpawnQueueInternal' = SpawnQueueInternal
       /\ \A i \in 1..Len(Entries) :
            /\ FindPoolObjectByHandle(Start', Entries[i].Handle) = EmptyObject
            /\ ~ReturnToPoolHandle(Start', Entries[i].Handle).ret
C18_EmptyPoolDestroysAll == [][C18_StepEmptyPool]_vars
\* a container of two entries was emptied while the other container keeps
\* its entry
C18_Witness ==
  /\ call.op = "EmptyPool"
  /\ Cardinality(EventsNamed("Destroy")) >= 2
  /\ GetRegisteredObjectsNum(Start, call.class) = 0
  /\ \E c \in Classes : GetRegisteredObjectsNum(Start, c) >= 1

\* the entries of a container that the functor (as a number) does not match
Survivors(PoolObjects, Code) ==
  SelectSeq(PoolObjects, LAMBDA Data : ~Satisfies(Data.PoolObject, Code))

(***************************************************************************)
(* C19. EmptyAllByPredicate destroys, once each, exactly the pooled        *)
(* objects the functor answers true for and removes their entries, in      *)
(* every container; the entries of the other objects stay in their         *)
(* containers, in the same order, with their object, handle and active     *)
(* flag; no container is removed and the queues are as before.             *)
(***************************************************************************)
C19_StepEmptyByPredicate ==
  call'.op = "EmptyAllByPredicate" =>
    /\ \A o \in 1..Len(Objects) :
         Cardinality(DestroyCallsNext(o)) =
           IF Registered(o) /\ Satisfies(o, call'.obj) THEN 1 ELSE 0
    /\ Destroyed' = Destroyed \cup {o \in 1..Len(Objects) :
                                      Registered(o) /\ Satisfies(o, call'.obj)}
    /\ Len(PoolsInternal') = Len(PoolsInternal)
    /\ \A p \in 1..Len(PoolsInternal) :
         PoolsInternal'[p] =
           [PoolsInternal[p] EXCEPT !.PoolObjects = Survivors(@, call'.obj)]
    /\ SpawnQueueInternal' = SpawnQueueInternal
C19_PredicateRemovesExactly == [][C19_StepEmptyByPredicate]_vars
\* of a container of three entries the first was removed and the other two
\* stay, while a second container exists
C19_Witness ==
  /\ call.op = "EmptyAllByPredicate"
  /\ Cardinality(EventsNamed("Destroy")) = 1
  /\ Len(PoolsInternal) = 2
  /\ \E p \in 1..Len(PoolsInternal) :
       /\ Len(PoolsInternal[p].PoolObjects) = 2
       /\ \E k \in EventsNamed("Destroy") :
            /\ trace[k].o < PoolsInternal[p].PoolObjects[1].PoolObject
            /\ Objects[trace[k].o] = PoolsInternal[p].ObjectClass

(***************************************************************************)
(* C20. For every request that is spawned in a step the factory invokes    *)
(* the pre-registration callback and then the post-spawn callback, once    *)
(* each: when the pre-registration callback starts the new object is in no *)
(* container; when the post-spawn callback is invoked the object is in the *)
(* container of its class, Active, and the handle of the request resolves  *)
(* to it; a completion reported to the caller comes after that.            *)
(***************************************************************************)
C20_CallbacksOf(h, e) == {k \in 1..Len(trace') : trace'[k].e = e /\ trace'[k].h = h}
C20_StepCallbackOrder ==
  \A h \in hist'.Materialized \ hist.Materialized :
    /\ Cardinality(C20_CallbacksOf(h, "SpawnNow")) = 1
    /\ Cardinality(C20_CallbacksOf(h, "OnPreRegistered")) = 1
    /\ Cardinality(C20_CallbacksOf(h, "OnPostSpawned")) = 1
    /\ \A i \in C20_CallbacksOf(h, "SpawnNow") :
       \A j \in C20_CallbacksOf(h, "OnPreRegistered") :
       \A k \in C20_CallbacksOf(h, "OnPostSpawned") :
         /\ i < j /\ j < k
         /\ trace'[j].o = trace'[i].o
         /\ trace'[k].o = trace'[i].o
         /\ trace'[i].o \notin 1..Len(Objects)
         /\ trace'[j].x = 0
         /\ trace'[k].x = 7
         /\ \A c \in C20_CallbacksOf(h, "Completed") : k < c
C20_PreRegisteredThenPostSpawned == [][C20_StepCallbackOrder]_vars
\* one run of the drain spawned two requests, both reported to their callers
C20_Witness ==
  /\ call.op = "OnNextTickProcessSpawn"
  /\ Cardinality(EventsNamed("OnPostSpawned")) = 2
  /\ Cardinality(EventsNamed("Completed")) = 2
  /\ \A k \in EventsNamed("OnPostSpawned") : trace[k].x = 7

(***************************************************************************)
(* C21. In every batch the request that was submitted last is spawned      *)
(* last: once it is spawned, every object spawned for a request of the     *)
(* batch is older than its object (objects are numbered as created).       *)
(***************************************************************************)
C21_LastSubmittedMaterializesLast ==
  \A b \in 1..Len(Batches) :
    LET Last == Batches[b].LastHandleRequest.Hash
        All == Batches[b].OutAllHandles
    IN Last \in hist.Materialized =>
         \A k \in 1..Len(All) :
           All[k].Hash \in hist.Materialized =>
             Resolve(All[k].Hash).PoolObject <= Resolve(Last).PoolObject

(***************************************************************************)
(* C22. While ticks keep occurring, every request that waits in a queue    *)
(* is eventually cancelled or spawned, and when it is spawned its          *)
(* post-spawn callback is invoked; the queues are eventually empty for     *)
(* good (only finitely many requests are submitted: the handles run out).  *)
(***************************************************************************)
C22_Served(h) ==
  \/ h \in hist.Cancelled
  \/ /\ h \in hist.Materialized
     /\ \E k \in EventsNamed("OnPostSpawned") : trace[k].h = h
C22_EveryRequestServed ==
  /\ \A h \in 1..MaxHandles : (h \in Pending) ~> C22_Served(h)
  /\ <>[](Pending = {})
\* the request submitted first was spawned after the two submitted later, by
\* the drain that left the queue empty
C22_Witness ==
  /\ call.op = "OnNextTickProcessSpawn"
  /\ Pending = {}
  /\ hist.Materialized = 1..MaxHandles
  /\ hist.Cancelled = {}
  /\ \E k \in EventsNamed("OnPostSpawned") : trace[k].h = 1

(***************************************************************************)
(* C23. A spawn request is consumed at most once: for a handle at most one *)
(* object is ever constructed and the post-spawn callback is invoked at    *)
(* most once, no two pool entries carry the same handle, a handle waits at *)
(* most once in the queues, and a request that was spawned or taken out of *)
(* a queue is in no queue afterwards.                                      *)
(***************************************************************************)
C23_EntriesOf(h) ==
  {pi \in {<<p, i>> : p \in 1..Len(PoolsInternal), i \in 1..MaxHandles} :
     /\ pi[2] <= Len(PoolsInternal[pi[1]].PoolObjects)
     /\ PoolsInternal[pi[1]].PoolObjects[pi[2]].Handle.Hash = h}
C23_QueuedAt(h) ==
  {fk \in {<<f, k>> : f \in Classes, k \in 1..MaxHandles} :
     /\ fk[2] <= Len(SpawnQueueInternal[fk[1]])
     /\ SpawnQueueInternal[fk[1]][fk[2]].Handle.Hash = h}
C23_OnceInState ==
  \A h \in 1..Len(Handles) :
    /\ Cardinality(C23_EntriesOf(h)) <= 1
    /\ Cardinality(C23_QueuedAt(h)) <= 1
    /\ h \in hist.Materialized \cup hist.Cancelled => C23_QueuedAt(h) = {}
C23_EventsOf(h, e) == {k \in 1..Len(trace') : trace'[k].e = e /\ trace'[k].h = h}
C23_OnceInStep ==
  \A h \in 1..Len(Handles') :
    LET Left == IF h \in hist.Materialized THEN 0 ELSE 1
    IN /\ Cardinality(C23_EventsOf(h, "SpawnNow")) <= Left
       /\ Cardinality(C23_EventsOf(h, "OnPostSpawned")) <= Left
       /\ h \in hist.Materialized \cup hist.Cancelled => h \notin Pending'
C23_ConsumedAtMostOnce == []C23_OnceInState /\ [][C23_OnceInStep]_vars
\* the object a drain spawned for a request was returned and handed out again
\* under the handle of the request, while another request was cancelled
C23_Witness ==
  /\ call.op = "TakeFromPool"
  /\ call.res = 1
  /\ call.hash \in hist.Materialized
  /\ Cardinality(C23_EntriesOf(call.hash)) = 1
  /\ Len(Objects) = 1
  /\ hist.Cancelled # {}
  /\ hist.burst[Handles[call.hash]].ticks > 0

(***************************************************************************)
(* C24. Between ticks a factory whose queue holds a request has a timer    *)
(* set for the next tick.                                                  *)
(***************************************************************************)
C24_DrainScheduled ==
  BetweenTicks =>
    \A f \in Classes : SpawnQueueInternal[f] # <<>> => Timers[f] >= 1
\* a drain has ended in which a callback submitted a request: the request
\* waits, and the timers of RequestSpawn and of the drain are both set
C24_Witness ==
  /\ call.op = "OnNextTickProcessSpawn"
  /\ BetweenTicks
  /\ \E f \in Classes :
       /\ Timers[f] = 2
       /\ \E k \in 1..Len(SpawnQueueInternal[f]) :
            SpawnQueueInternal[f][k].Handle.Hash = Len(Handles)
  /\ EventsNamed("Completed") # {}

(***************************************************************************)
(* C25. In every state the queue of every factory is ordered by priority,  *)
(* never increasing from front to back, and holds no Critical request.     *)
(***************************************************************************)
C25_QueueByPriority ==
  \A f \in Classes :
    LET Queue == SpawnQueueInternal[f]
    IN /\ \A k \in 1..Len(Queue) : Queue[k].Priority \in {Normal, Medium, High}
       /\ \A k \in 1..(Len(Queue) - 1) : Queue[k].Priority >= Queue[k + 1].Priority
\* a Medium request went in between a High and a Normal request that waited
C25_Witness ==
  /\ call.op = "CreateNewObjectInPool"
  /\ call.res = Medium
  /\ \E f \in Classes :
       LET Queue == SpawnQueueInternal[f]
       IN /\ Len(Queue) = 3
          /\ Queue[1].Priority = High
          /\ Queue[2].Handle.Hash = call.hash
          /\ Queue[3].Priority = Normal

(***************************************************************************)
(* C26. Taking a request out of a queue leaves the others as they were.    *)
(* DequeueSpawnRequestByHandle removes the request of the handle and       *)
(* nothing else, the rest keeping its order. A drain removes requests from *)
(* the front only: every request it neither spawned nor (through a         *)
(* callback) cancelled is still queued, in the same relative order, and    *)
(* behind none of them was a request spawned.                              *)
(***************************************************************************)
C26_GoneInStep ==
  (hist'.Materialized \ hist.Materialized) \cup (hist'.Cancelled \ hist.Cancelled)
C26_StepDequeueByHandle(f) ==
  (call'.op = "DequeueSpawnRequestByHandle" /\ call'.class = f) =>
    /\ SpawnQueueInternal'[f] = WithoutHash(SpawnQueueInternal[f], call'.hash)
    /\ Len(SpawnQueueInternal'[f]) >= Len(SpawnQueueInternal[f]) - 1
    /\ (call'.res = 1) <=> (call'.hash \in QueuedIn(SpawnQueueInternal[f]))
C26_StepDrain(f) ==
  (call'.op = "OnNextTickProcessSpawn" /\ call'.class = f) =>
    LET Queue == SpawnQueueInternal[f]
    IN /\ SelectSeq(SpawnQueueInternal'[f], LAMBDA r : r.Handle.Hash \in QueuedIn(Queue))
            = SelectSeq(Queue, LAMBDA r : r.Handle.Hash \notin C26_GoneInStep)
       /\ \A j, k \in 1..Len(Queue) :
            (j < k /\ Queue[k].Handle.Hash \in hist'.Materialized)
              => Queue[j].Handle.Hash \in C26_GoneInStep
       /\ Cardinality(QueuedIn(Queue) \cap hist'.Materialized) <= ObjectsPerFrame
C26_RemovesOnlySelected ==
  [][\A f \in Classes : C26_StepDequeueByHandle(f) /\ C26_StepDrain(f)]_vars
\* the request in the middle of three was taken out by its handle
C26_Witness ==
  /\ call.op = "DequeueSpawnRequestByHandle"
  /\ call.res = 1
  /\ LET Queue == SpawnQueueInternal[call.class]
     IN /\ Len(Queue) = 2
        /\ Queue[1].Priority = Queue[2].Priority
        /\ Queue[1].Handle.Hash < call.hash
        /\ call.hash < Queue[2].Handle.Hash

(***************************************************************************)
(* C27. A Critical request never enters a queue and sets no timer. With a  *)
(* passive callback the queues and the timers are after the call what they *)
(* were before it. A callback that acts changes them only by what it does  *)
(* itself: one that cancels a handle takes that request out and sets no    *)
(* timer; one that takes an object adds at most its own request behind the *)
(* others, with a timer only when the queue was empty.                     *)
(***************************************************************************)
C27_CriticalCall ==
  /\ call'.op = "CreateNewObjectInPool"
  /\ call'.res = Critical
C27_QueueUntouched(f) ==
  LET Queue == SpawnQueueInternal[f]
      QueueN == SpawnQueueInternal'[f]
      Own == Len(Handles') \notin {call'.hash} \cup QueuedIn(Queue)
  IN /\ call'.hash \notin QueuedIn(QueueN)
     /\ call'.cb = "user" => (QueueN = Queue /\ Timers'[f] = Timers[f])
     /\ call'.cb = "cancel" =>
          /\ \E h \in 1..Len(Handles) : QueueN = WithoutHash(Queue, h)
          /\ Timers'[f] = Timers[f]
     /\ call'.cb = "take" =>
          \/ QueueN = Queue /\ Timers'[f] = Timers[f]
          \/ /\ Own
             /\ Len(QueueN) = Len(Queue) + 1
             /\ SubSeq(QueueN, 1, Len(Queue)) = Queue
             /\ QueueN[Len(QueueN)].Handle.Hash = Len(Handles')
             /\ Timers'[f] = Timers[f] + (IF Queue = <<>> THEN 1 ELSE 0)
C27_CriticalBypassesQueue ==
  [][C27_CriticalCall => \A f \in Classes : C27_QueueUntouched(f)]_vars
\* a Critical request was spawned while one request waited with its timer set
C27_Witness ==
  /\ call.op = "CreateNewObjectInPool"
  /\ call.res = Critical
  /\ call.cb = "user"
  /\ call.hash \in hist.Materialized
  /\ \E f \in Classes : Len(SpawnQueueInternal[f]) = 1 /\ Timers[f] = 1

(***************************************************************************)
(* C28. TakeFromPoolOrNull is first-fit in the order of registration: the  *)
(* entry it returns is the free entry with the lowest index of the         *)
(* container of the class, and it returns null only when the container has *)
(* no free entry.                                                          *)
(***************************************************************************)
C28_FreeIn(p) ==
  {i \in 1..Len(PoolsInternal[p].PoolObjects) : IsFree(PoolsInternal[p].PoolObjects[i])}
C28_StepFirstFit ==
  call'.op = "TakeFromPoolOrNull" =>
    LET p == FindPool(Start, call'.class)
    IN IF p = 0 \/ C28_FreeIn(p) = {}
       THEN call'.obj = NullObject
       ELSE /\ call'.obj = PoolsInternal[p].PoolObjects[MinOf(C28_FreeIn(p))].PoolObject
            /\ \A i \in C28_FreeIn(p) :
                 FindInPoolByObject(PoolsInternal[p], call'.obj) <= i
C28_FirstFit == [][C28_StepFirstFit]_vars
\* of three entries the first is held and the other two were free: the
\* second was returned, the third is still free
C28_Witness ==
  /\ call.op = "TakeFromPoolOrNull"
  /\ \E p \in 1..Len(PoolsInternal) :
       LET PoolObjects == PoolsInternal[p].PoolObjects
       IN /\ Len(PoolObjects) = 3
          /\ PoolObjects[1].bIsActive
          /\ PoolObjects[2].PoolObject = call.obj
          /\ IsFree(PoolObjects[3])
          /\ hist.Takers[PoolObjects[1].PoolObject] = 1

(***************************************************************************)
(* C29. A take for class T is served from the container of exactly T: the  *)
(* object returned is of class T and an entry of that container; when that *)
(* container has no free entry the take misses, whatever is free in the    *)
(* containers of the ancestors and descendants of T, which are left as     *)
(* they were. Every container holds objects of its own class only.         *)
(***************************************************************************)
C29_OwnClassOnly ==
  \A p \in 1..Len(PoolsInternal) :
    \A i \in 1..Len(PoolsInternal[p].PoolObjects) :
      Objects[PoolsInternal[p].PoolObjects[i].PoolObject] = PoolsInternal[p].ObjectClass
C29_StepExactType ==
  call'.op \in {"TakeFromPoolOrNull", "TakeFromPool"} =>
    /\ call'.obj # NullObject =>
         /\ Objects[call'.obj] = call'.class
         /\ \E p \in 1..Len(PoolsInternal) :
              /\ PoolsInternal[p].ObjectClass = call'.class
              /\ FindInPoolByObject(PoolsInternal[p], call'.obj) # 0
    /\ ~HasFree(call'.class) => call'.obj = NullObject
    /\ \A p \in 1..Len(PoolsInternal) :
         PoolsInternal[p].ObjectClass # call'.class =>
           PoolsInternal'[p] = PoolsInternal[p]
C29_ExactType == []C29_OwnClassOnly /\ [][C29_StepExactType]_vars
\* a take for UObject missed while the container of AActor, which has the
\* same factory, holds a free entry, and the container of UObject exists
C29_Witness ==
  /\ call.op = "TakeFromPoolOrNull"
  /\ call.class = "UObject"
  /\ call.obj = NullObject
  /\ HasFree("AActor")
  /\ Len(PoolsInternal) = 2
  /\ \A p \in 1..Len(PoolsInternal) :
       /\ PoolsInternal[p].Factory = "UObject"
       /\ PoolsInternal[p].PoolObjects # <<>>

(***************************************************************************)
(* C30. With SpawnObjectsPerFrame below 1 a drain does what it does with   *)
(* the value 1: on a queue that holds requests it spawns the first one     *)
(* and no other, leaves the rest queued in their order and, when a rest    *)
(* remains, sets the timer for the next tick; on an empty queue it does    *)
(* nothing.                                                                *)
(***************************************************************************)
C30_StepDrainsOne(f) ==
  LET Queue == SpawnQueueInternal[f]
  IN IF Queue = <<>>
     THEN /\ SpawnQueueInternal'[f] = <<>>
          /\ hist'.Materialized = hist.Materialized
          /\ Objects' = Objects
          /\ Timers'[f] = Timers[f]
     ELSE /\ SpawnQueueInternal'[f] = Tail(Queue)
          /\ hist'.Materialized = hist.Materialized \cup {Queue[1].Handle.Hash}
          /\ Len(Objects') = Len(Objects) + 1
          /\ ResolveNext(Queue[1].Handle.Hash).PoolObject = Len(Objects')
          /\ Timers'[f] = Timers[f] + (IF Tail(Queue) = <<>> THEN 0 ELSE 1)
C30_ClampedToOne ==
  [][\A f \in Classes :
       (call'.op = "OnNextTickProcessSpawn" /\ call'.class = f /\ SpawnObjectsPerFrame <= 1)
         => C30_StepDrainsOne(f)]_vars
\* with the setting below 1 a drain spawned the first of three requests
C30_Witness ==
  /\ call.op = "OnNextTickProcessSpawn"
  /\ SpawnObjectsPerFrame < 1
  /\ Len(SpawnQueueInternal[call.class]) = 2
  /\ Timers[call.class] = 1
  /\ Len(Objects) = 1
  /\ Cardinality(hist.Materialized) = 1

(***************************************************************************)
(* C31. FindPoolFactoryChecked ends the program when no class of the       *)
(* ancestor chain of the requested class has a factory, and it hands out   *)
(* no null and no arbitrary factory: a container that a step of the living *)
(* program adds has the factory of the closest class of the chain of its   *)
(* class; a take or a register for a class without a container whose chain *)
(* has no factory is the last step of the program, so that the container   *)
(* without a factory it leaves behind is never used.                       *)
(***************************************************************************)
C31_NewContainersNext ==
  {p \in 1..Len(PoolsInternal') : p > Len(PoolsInternal)}
C31_StepChecked ==
  /\ call.op # "Fatal"
  /\ \A p \in C31_NewContainersNext :
       LET Pool == PoolsInternal'[p]
       IN /\ Pool.Factory = Nearest(AllFactoriesInternal, Pool.ObjectClass)
          /\ (Pool.Factory = NoClass) <=> (call'.op = "Fatal")
  /\ \A p \in 1..Len(PoolsInternal') :
       PoolsInternal'[p].Factory = NoClass => call'.op = "Fatal"
  /\ call'.op = "Fatal" =>
       /\ Nearest(AllFactoriesInternal, call'.class) = NoClass
       /\ \A k \in 1..Len(AncestorChain(call'.class)) :
            AncestorChain(call'.class)[k] \notin AllFactoriesInternal
  /\ call'.op \in {"TakeFromPool", "RegisterObjectInPool"} =>
       \/ FindPool(Start, call'.class) # 0
       \/ Nearest(AllFactoriesInternal, call'.class) # NoClass
C31_FailsFatally == [][C31_StepChecked]_vars
\* a take of UObject ended the program while AActor had a factory: the
\* container it added has no factory
C31_Witness ==
  /\ call.op = "Fatal"
  /\ call.hash # 0
  /\ call.class = "UObject"
  /\ "AActor" \in AllFactoriesInternal
  /\ \E p \in 1..Len(PoolsInternal) :
       /\ PoolsInternal[p].ObjectClass = "UObject"
       /\ PoolsInternal[p].Factory = NoClass

(***************************************************************************)
(* C32. AddFactory for a class that has a factory returns without effect:  *)
(* the map of factories, the queue of every factory with its order and its *)
(* timer, the containers, the handles and the objects are as before; a     *)
(* factory enters the map only for a class that had none, one at a time.   *)
(***************************************************************************)
C32_StepAddFactory ==
  call'.op = "AddFactory" =>
    IF call'.class \in AllFactoriesInternal
    THEN /\ call'.res = 0
         /\ UNCHANGED <<AllFactoriesInternal, SpawnQueueInternal, Timers, Due,
                        PoolsInternal, Handles, Objects, Destroyed, Batches>>
         /\ trace' = <<>>
    ELSE /\ call'.res = 1
         /\ AllFactoriesInternal' = AllFactoriesInternal \cup {call'.class}
         /\ UNCHANGED <<SpawnQueueInternal, Timers, PoolsInternal>>
C32_SecondFactoryRefused == [][C32_StepAddFactory]_vars
\* AddFactory was refused for a class whose factory has a request in its
\* queue and a timer set
C32_Witness ==
  /\ call.op = "AddFactory"
  /\ call.res = 0
  /\ call.class \in Classes
  /\ call.class \in AllFactoriesInternal
  /\ SpawnQueueInternal[call.class] # <<>>
  /\ Timers[call.class] > 0

\* the factories a step submits a request to, cancels a request of, or drains
C33_Touched ==
  IF call'.op \in {"CreateNewObjectInPool", "OnNextTickProcessSpawn"} THEN {call'.class}
  ELSE IF call'.op = "ReturnToPoolHandle" THEN {Handles[call'.hash]}
  ELSE IF call'.op = "TakeFromPoolArray" THEN {Handles'[h] : h \in NewHashes}
  ELSE {}
(***************************************************************************)
(* C33. Every factory has a queue and timers of its own: a step that       *)
(* submits a request to a factory, cancels one of its requests or drains   *)
(* its queue leaves the queue (its requests and their order) and the       *)
(* timers of every other factory as they were, and a drain of a factory    *)
(* spawns the first Min(N, length) requests of its own queue whatever the  *)
(* other factories have spawned in the same tick.                          *)
(***************************************************************************)
C33_StepIndependent ==
  /\ \A g \in Classes \ C33_Touched :
       /\ SpawnQueueInternal'[g] = SpawnQueueInternal[g]
       /\ call'.op # "Tick" => Timers'[g] = Timers[g] /\ Due'[g] = Due[g]
       /\ hist'.Spawned[g] = IF call'.op = "Tick" THEN 0 ELSE hist.Spawned[g]
  /\ call'.op = "OnNextTickProcessSpawn" =>
       LET f == call'.class
           Num == Len(SpawnQueueInternal[f])
           NumToSpawn == IF ObjectsPerFrame < Num THEN ObjectsPerFrame ELSE Num
       IN /\ SpawnQueueInternal'[f] = SubSeq(SpawnQueueInternal[f], NumToSpawn + 1, Num)
          /\ hist'.Spawned[f] = hist.Spawned[f] + NumToSpawn
C33_QueuesIndependent == [][C33_StepIndependent]_vars
\* in one tick each of the two factories has spawned N requests, and the
\* factory that was drained first still has a request waiting
C33_Witness ==
  /\ call.op = "OnNextTickProcessSpawn"
  /\ \A f \in Classes : hist.Spawned[f] = ObjectsPerFrame
  /\ \E g \in Classes \ {call.class} : SpawnQueueInternal[g] # <<>> /\ Timers[g] > 0

\* the pools of the state a step leaves
C34_Next == [PoolsInternal |-> PoolsInternal']
\* the classes a step passes to FindPoolOrAdd: the class of the object, of the
\* request or of the handle of a call, and the classes of the requests a
\* drain spawns and registers
C34_Seen ==
  IF call'.op \in {"RegisterObjectInPool", "CreateNewObjectInPool"} THEN {call'.class}
  ELSE IF call'.op = "ReturnToPool" THEN {Objects[call'.obj]}
  ELSE IF call'.op = "ReturnToPoolHandle" THEN {Handles[call'.hash]}
  ELSE IF call'.op = "OnNextTickProcessSpawn"
       THEN {Handles[trace'[k].h] : k \in EventsNamedNext("OnPreRegistered")}
  ELSE {}
(***************************************************************************)
(* C34. A container comes to exist in the step in which RegisterObjectIn-  *)
(* Pool, CreateNewObjectInPool, ReturnToPool (by object or by handle) or   *)
(* the registration of a spawned request meets a class that has none, and  *)
(* in no other step; no two containers have the same class; the containers *)
(* stay where they are in every step but EmptyAllPools, which removes them *)
(* all: after EmptyPool(T) and after EmptyAllByPredicate every class that  *)
(* was contained is still reported by ContainsClassInPool, the container   *)
(* EmptyPool was called for being empty.                                   *)
(***************************************************************************)
C34_StepContainers ==
  /\ \A p, q \in 1..Len(PoolsInternal') :
       PoolsInternal'[p].ObjectClass = PoolsInternal'[q].ObjectClass => p = q
  /\ IF call'.op = "EmptyAllPools"
     THEN /\ PoolsInternal' = <<>>
          /\ \A c \in Classes : ~ContainsClassInPool(C34_Next, c)
     ELSE /\ Len(PoolsInternal') >= Len(PoolsInternal)
          /\ \A p \in 1..Len(PoolsInternal) :
               PoolsInternal'[p].ObjectClass = PoolsInternal[p].ObjectClass
          /\ \A c \in Classes :
               ContainsClassInPool(C34_Next, c) <=>
                 (ContainsClassInPool(Start, c) \/ c \in C34_Seen)
  /\ call'.op = "EmptyPool" /\ ContainsClassInPool(Start, call'.class) =>
       /\ ContainsClassInPool(C34_Next, call'.class)
       /\ PoolsInternal'[FindPool(C34_Next, call'.class)].PoolObjects = <<>>
C34_ContainersLazyAndKept == [][C34_StepContainers]_vars
\* EmptyPool has destroyed the objects of a container, which is still there
\* and empty, next to the container of the other class
C34_Witness ==
  /\ call.op = "EmptyPool"
  /\ trace # <<>>
  /\ Len(PoolsInternal) = 2
  /\ ContainsClassInPool(Start, call.class)
  /\ PoolsInternal[FindPool(Start, call.class)].PoolObjects = <<>>

\* the places handle h is in: positions of the queues and entries of the pools
C35_Places(h) ==
  LET Queued == UNION {{<<"queue", f, k>> :
                          k \in {j \in 1..Len(SpawnQueueInternal[f]) :
                                   SpawnQueueInternal[f][j].Handle.Hash = h}} :
                       f \in Classes}
      Bound == UNION {{<<"entry", p, i>> :
                         i \in {j \in 1..Len(PoolsInternal[p].PoolObjects) :
                                  PoolsInternal[p].PoolObjects[j].Handle.Hash = h}} :
                      p \in 1..Len(PoolsInternal)}
  IN Queued \cup Bound
(***************************************************************************)
(* C35. With handles generated by the pool manager, every handle is in at  *)
(* most one place in every state: one position of one queue, or one entry  *)
(* of one container, never both and never two of a kind.                   *)
(***************************************************************************)
C35_HandleInOnePlace ==
  \A h \in 1..Len(Handles) : Cardinality(C35_Places(h)) <= 1
\* a batch was taken of which one request was served by a free entry and
\* the other waits in the queue: every handle generated so far has its place
C35_Witness ==
  /\ call.op = "TakeFromPoolArray"
  /\ Len(Handles) = MaxHandles
  /\ \A h \in 1..Len(Handles) : Cardinality(C35_Places(h)) = 1
  /\ \E h \in 1..Len(Handles), f \in Classes : <<"queue", f, 1>> \in C35_Places(h)
  /\ \E h \in 1..Len(Handles), p \in 1..Len(PoolsInternal) :
       /\ <<"entry", p, 1>> \in C35_Places(h)
       /\ PoolsInternal[p].PoolObjects[1].bIsActive

\* the entries of object o, as container and index
C36_EntriesOfObject(o) ==
  {pi \in UNION {{<<p, i>> : i \in 1..Len(PoolsInternal[p].PoolObjects)} :
                   p \in 1..Len(PoolsInternal)} :
     PoolsInternal[pi[1]].PoolObjects[pi[2]].PoolObject = o}
\* the entry FindPoolObjectByHandle finds for the handle FindPoolHandleByObject
\* gives for object o
C36_RoundTrip(o) == FindPoolObjectByHandle(Start, FindPoolHandleByObject(Start, o))
\* the handle of object o was generated for the class of the object and no
\* other entry carries it
C36_OwnHandle(o) ==
  LET Handle == FindPoolHandleByObject(Start, o)
  IN /\ Handle.ObjectClass = Objects[o]
     /\ Cardinality(EntriesOf(Handle.Hash)) = 1
(***************************************************************************)
(* C36. No object has more than one entry, and for every object with an   *)
(* entry whose handle was generated for the object's own class and is      *)
(* carried by no other entry, FindPoolObjectByHandle of the handle that    *)
(* FindPoolHandleByObject gives is the entry of the object: this includes  *)
(* the handles the pool manager generates and the handles a caller         *)
(* generates for the object it registers.                                  *)
(***************************************************************************)
C36_LookupsInverse ==
  \A o \in 1..Len(Objects) :
    /\ Cardinality(C36_EntriesOfObject(o)) <= 1
    /\ \A pi \in C36_EntriesOfObject(o) :
         /\ FindPoolHandleByObject(Start, o) = PoolsInternal[pi[1]].PoolObjects[pi[2]].Handle
         /\ C36_OwnHandle(o) =>
              C36_RoundTrip(o) = PoolsInternal[pi[1]].PoolObjects[pi[2]]
(***************************************************************************)
(* C36, as claimed: the same for every object with an entry, whatever      *)
(* handle the caller supplied to RegisterObjectInPool.                     *)
(***************************************************************************)
C36_LookupsInverseForAnyHandle ==
  \A o \in 1..Len(Objects) :
    /\ Cardinality(C36_EntriesOfObject(o)) <= 1
    /\ \A pi \in C36_EntriesOfObject(o) :
         C36_RoundTrip(o) = PoolsInternal[pi[1]].PoolObjects[pi[2]]
\* an object of outer code was registered with a handle the caller generated
\* for it, next to an entry a request created, and is found by this handle
C36_Witness ==
  /\ call.op = "RegisterObjectInPool"
  /\ call.res = 1
  /\ call.hash # 0
  /\ C36_OwnHandle(call.obj)
  /\ C36_RoundTrip(call.obj).PoolObject = call.obj
  /\ C36_RoundTrip(call.obj).Handle.Hash = call.hash
  /\ \E o \in 1..Len(Objects) : o # call.obj /\ C36_EntriesOfObject(o) # {}

\* the entry that carries hash h in the state a step leaves
C37_EntryNext(h) ==
  FindPoolObjectByHandle([PoolsInternal |-> PoolsInternal'],
                         [ObjectClass |-> Handles[h], Hash |-> h])
(***************************************************************************)
(* C37. EmptyPool and EmptyAllPools leave the queue and the timers of      *)
(* every factory as they are and cancel no request. A request leaves a     *)
(* queue only when its handle is returned or when a drain spawns it, and   *)
(* the drain registers the new object under the handle of the request in   *)
(* the container of its class, which it creates when EmptyAllPools has     *)
(* removed it; between ticks a factory with a waiting request has a timer  *)
(* set, also after the pools were emptied.                                 *)
(***************************************************************************)
C37_StepEmptyKeepsRequests ==
  /\ call'.op \in {"EmptyPool", "EmptyAllPools"} =>
       /\ UNCHANGED <<SpawnQueueInternal, Timers, Due>>
       /\ hist'.Cancelled = hist.Cancelled
       /\ hist'.Materialized = hist.Materialized
  /\ \A h \in Pending \ Pending' :
       \/ call'.op = "ReturnToPoolHandle" /\ call'.hash = h
       \/ /\ call'.op = "OnNextTickProcessSpawn"
          /\ C37_EntryNext(h).PoolObject > Len(Objects)
          /\ C37_EntryNext(h).Handle.Hash = h
          /\ C37_EntryNext(h).bIsActive
  /\ BetweenTicks' =>
       \A f \in Classes : SpawnQueueInternal'[f] # <<>> => Timers'[f] >= 1
C37_EmptyKeepsRequests == [][C37_StepEmptyKeepsRequests]_vars
\* EmptyAllPools has destroyed an object and removed the containers while a
\* request waits in a queue with its timer set
C37_Witness ==
  /\ call.op = "EmptyAllPools"
  /\ trace # <<>>
  /\ Destroyed # {}
  /\ PoolsInternal = <<>>
  /\ \E f \in Classes : SpawnQueueInternal[f] # <<>> /\ Timers[f] >= 1

(***************************************************************************)
(* C38. The factory of a container is the one FindPoolOrAdd stored when it *)
(* created the container: no step changes it, neither AddFactory for a     *)
(* class closer to the container's class nor RemoveFactory of the stored   *)
(* factory, and a take that finds no free entry in an existing container   *)
(* hands its request to the stored factory, whatever FindPoolFactoryChecked*)
(* would find now; the requests a drain spawns are those of its factory.   *)
(***************************************************************************)
C38_StepFactoryKept ==
  /\ \A p \in 1..Len(PoolsInternal) :
       /\ p <= Len(PoolsInternal')
       /\ PoolsInternal'[p].ObjectClass = PoolsInternal[p].ObjectClass
       /\ PoolsInternal'[p].Factory = PoolsInternal[p].Factory
  /\ call'.op = "TakeFromPool" /\ call'.res = 0 /\ FindPool(Start, call'.class) # 0 =>
       LET f == PoolsInternal[FindPool(Start, call'.class)].Factory
       IN /\ SpawnQueueInternal'[f] =
               Append(SpawnQueueInternal[f], SpawnQueueInternal'[f][Len(SpawnQueueInternal'[f])])
          /\ SpawnQueueInternal'[f][Len(SpawnQueueInternal'[f])].Handle.Hash = call'.hash
          /\ \A g \in Classes \ {f} : SpawnQueueInternal'[g] = SpawnQueueInternal[g]
          /\ f \notin AllFactoriesInternal => f \in hist'.Stale
  /\ call'.op = "OnNextTickProcessSpawn" =>
       \A g \in Classes \ {call'.class} : SpawnQueueInternal'[g] = SpawnQueueInternal[g]
C38_FactoryFixedAtCreation == [][C38_StepFactoryKept]_vars
\* a take of AActor queued its request at the factory of UObject, which the
\* container of AActor has stored, although AActor has a factory of its own
\* by now
C38_Witness ==
  /\ call.op = "TakeFromPool"
  /\ call.class = "AActor"
  /\ call.res = 0
  /\ "AActor" \in AllFactoriesInternal
  /\ \E p \in 1..Len(PoolsInternal) :
       /\ PoolsInternal[p].ObjectClass = "AActor"
       /\ PoolsInternal[p].Factory = "UObject"
  /\ call.hash \in QueuedIn(SpawnQueueInternal["UObject"])
  /\ SpawnQueueInternal["AActor"] = <<>>

\* ReturnToPool(Object) is called for an object that has an entry and is Inactive
C39_ReturnOfInactive ==
  /\ call'.op = "ReturnToPool"
  /\ GetPoolObjectState(Start, call'.obj) = Inactive
(***************************************************************************)
(* C39. ReturnToPool(Object) for an object that is Inactive in the pool    *)
(* returns true and changes nothing in the pool: the containers with their *)
(* entries, the order, the handles and the states of the entries are as    *)
(* before, so are the numbers of free and of registered objects, the       *)
(* queues and the timers; the factory's OnReturnToPool and                 *)
(* OnChangedStateInPool(Inactive) are invoked for the object once more.    *)
(***************************************************************************)
C39_StepSecondReturn ==
  C39_ReturnOfInactive =>
    LET After == [PoolsInternal |-> PoolsInternal', Objects |-> Objects']
        o == call'.obj
    IN /\ call'.res = 1
       /\ GetPoolObjectState(After, o) = Inactive
       /\ PoolsInternal' = PoolsInternal
       /\ \A c \in Classes :
            /\ GetFreeObjectsNum(After, c) = GetFreeObjectsNum(Start, c)
            /\ GetRegisteredObjectsNum(After, c) = GetRegisteredObjectsNum(Start, c)
       /\ UNCHANGED <<SpawnQueueInternal, Timers, Due, Handles, Objects, Destroyed>>
       /\ trace' = <<Ev("OnReturnToPool", 0, o, 0),
                     Ev("OnChangedStateInPool", 0, o, StateCode(Inactive))>>
C39_ReturnIdempotent == [][C39_StepSecondReturn]_vars
\* ReturnToPool was called for an Inactive object that is the first of
\* several entries of its container, another of which is Active
C39_Witness ==
  /\ call.op = "ReturnToPool"
  /\ call.cb = Inactive
  /\ call.res = 1
  /\ \E p \in 1..Len(PoolsInternal) :
       /\ Len(PoolsInternal[p].PoolObjects) >= 2
       /\ PoolsInternal[p].PoolObjects[1].PoolObject = call.obj
       /\ ~PoolsInternal[p].PoolObjects[1].bIsActive
       /\ \E i \in 2..Len(PoolsInternal[p].PoolObjects) :
            PoolsInternal[p].PoolObjects[i].bIsActive

\* the invocations of a step that belong to the request of hash h
C40_InvocationsNext(h) ==
  {k \in 1..Len(trace') :
     /\ trace'[k].h = h
     /\ trace'[k].e \in {"SpawnNow", "OnPreRegistered", "OnPostSpawned", "Completed"}}
\* the position of the SpawnNow of hash h among the events of a step, 0 if none
C40_SpawnedAtNext(h) ==
  LET At == {k \in 1..Len(trace') : trace'[k].e = "SpawnNow" /\ trace'[k].h = h}
  IN IF At = {} THEN 0 ELSE MinOf(At)
(***************************************************************************)
(* C40. Once a waiting request was cancelled through its handle, nothing   *)
(* is invoked for it any more (no SpawnNow, no OnPreRegistered, no         *)
(* OnPostSpawned, no completion callback) and no pool entry carries its    *)
(* handle; the cancellation takes only this request out of the queue, and  *)
(* the requests that stay keep their order in the queue and are spawned in *)
(* this order.                                                             *)
(***************************************************************************)
C40_StepCancelledStaysOut ==
  /\ \A h \in hist'.Cancelled :
       /\ C40_InvocationsNext(h) = {}
       /\ h \notin hist'.Materialized
       /\ h \notin Pending'
       /\ \A p \in 1..Len(PoolsInternal') :
            \A i \in 1..Len(PoolsInternal'[p].PoolObjects) :
              PoolsInternal'[p].PoolObjects[i].Handle.Hash # h
  /\ call'.op = "ReturnToPoolHandle" /\ call'.hash \in Pending =>
       \A f \in Classes :
         SpawnQueueInternal'[f] = WithoutHash(SpawnQueueInternal[f], call'.hash)
  /\ \A f \in Classes :
       \A a, b \in QueuedIn(SpawnQueueInternal[f]) :
         PosIn(SpawnQueueInternal[f], a) < PosIn(SpawnQueueInternal[f], b) =>
           /\ a \in QueuedIn(SpawnQueueInternal'[f]) /\ b \in QueuedIn(SpawnQueueInternal'[f]) =>
                PosIn(SpawnQueueInternal'[f], a) < PosIn(SpawnQueueInternal'[f], b)
           /\ C40_SpawnedAtNext(a) # 0 /\ C40_SpawnedAtNext(b) # 0 =>
                C40_SpawnedAtNext(a) < C40_SpawnedAtNext(b)
           /\ C40_SpawnedAtNext(b) # 0 =>
                a \notin QueuedIn(SpawnQueueInternal'[f])
C40_CancelledStaysOut == [][C40_StepCancelledStaysOut]_vars
\* the second of three requests was cancelled through its handle; the first
\* and the third were spawned and have their entries, the second has none
C40_Witness ==
  /\ call.op = "OnNextTickProcessSpawn"
  /\ hist.Returned = {2}
  /\ hist.Materialized = {1, 3}
  /\ EntriesOf(1) # {} /\ EntriesOf(3) # {}
  /\ EntriesOf(2) = {}
  /\ Pending = {}
====
